---- MODULE Spec2Model ----
(***************************************************************************)
(* A model of the whoosh indexing pool (whoosh/filedb/pools.py) and of the *)
(* posting codec (whoosh/postings/basic.py, whoosh/postings/postings.py).  *)
(*                                                                         *)
(* Specifications:                                                         *)
(*   Spec       one TempfilePool: add_posting, dump_run, finish, cancel    *)
(*   SpecMulti  one MultiPool with its PoolWritingTask worker processes    *)
(*   SpecDoc    the doc-list codec: doclist_to_bytes, doclist_reader,      *)
(*              rewrite_raw_bytes, min_length / max_length                 *)
(*   SpecRange  the range codec: encode_ranges, decode_ranges              *)
(***************************************************************************)
EXTENDS Integers, Sequences, FiniteSets, TLC

VARIABLES
    \* ---- TempfilePool (pools.py 241-371) ----
    postings,   \* self.postings: list of (fieldnum, text, docnum, freq, datastring)
    size,       \* self.size
    count,      \* self.count
    runs,       \* self.runs: list of (tempname, count)
    files,      \* the run files of self._dir: tempname -> the postings dumped
    dirExists,  \* whether self._dir exists
    clock,      \* the last value now() returned
    added,      \* history: the postings handed to add_posting that it accepted
    nadds,      \* history: the number of add_posting calls
    phase,      \* "open", "finished", "failed" (finish raised), "cancelled"
    out,        \* what write_postings did to the posting writer and term table
    err,        \* the exception the last call raised, or "none"
    \* ---- doc-list codec (basic.py) ----
    dfmt,       \* the format handed to doclist_to_bytes
    dposts,     \* the raw postings handed to doclist_to_bytes
    dblk,       \* what doclist_to_bytes returned or raised
    dsrc,       \* the buffer the reader is opened on
    doff,       \* the offset of the block in dsrc
    drdr,       \* what doclist_reader returned or raised
    dshift,     \* the doc map handed to rewrite_raw_bytes adds dshift
    drw,        \* what rewrite_raw_bytes returned or raised
    dstage,     \* "idle", "input", "encoded", "opened", "rewritten"
    \* ---- range codec (basic.py 442-483) ----
    rin,        \* the list of (start, end) pairs handed to encode_ranges
    rblk,       \* what encode_ranges returned or raised
    roff,       \* the offset decode_ranges is given
    rout,       \* what decode_ranges returned or raised
    rstage,     \* "idle", "input", "encoded", "decoded"
    \* ---- MultiPool and its PoolWritingTask workers (pools.py 376-474) ----
    pqueue,     \* self.postingqueue: the tasks not yet dequeued, oldest first
    rqueue,     \* self.resultsqueue
    wpc,        \* where each worker process is in PoolWritingTask.run
    wsub,       \* the sub-pool of each worker: postings, size, count, runs
    wcur,       \* the posting a worker is adding while its sub-pool spills
    sig,        \* SIGTERM of each worker: "none", "pending", "spent"
    mpc,        \* where the coordinator is in finish or cancel
    mi,         \* the index of the coordinator's loop over self.tasks
    mdir,       \* whether the MultiPool's self._dir exists
    mfiles,     \* the run files of that directory: (worker, time) -> postings
    mlens,      \* the workers whose lengths file is in that directory
    mclock,     \* the last value now() returned
    mruns,      \* the runs finish has collected from the result queue
    mout,       \* what write_postings did at the end of finish
    mtasks,     \* history: the postings handed to MultiPool.add_posting
    wbuf,       \* per worker: the result its feeder thread has yet to write
    wlog,       \* history, per worker: the tasks applied and the Stops taken
    \* ---- vector codec (basic.py 235-252, 815-859; postings.py 175-209) ----
    vterms,     \* the terms of the postings handed to vector_to_bytes
    vblk,       \* what vector_to_bytes returned or raised
    vrdr,       \* the BasicVectorReader opened on the block
    vq,         \* the term looked up
    vres,       \* what seek and term_index of both readers returned or raised
    vstage,     \* "idle", "input", "encoded", "opened", "looked"
    \* ---- Schema (fields.py 865-1069) ----
    sfields,    \* self._fields: name -> field
    sdyn,       \* self._dyn_fields: the (glob name, field) entries in insertion order
    ssub,       \* self._subfields: name -> the names of its sub-fields
    snext,      \* the number of field objects made so far
    slast,      \* the last call: its arguments and the exception it raised
    sunder,     \* history: name -> the fields successful adds put under it
    nfield,     \* the Numeric field: bits, signed, shift_step
    nrange,     \* the NumericRange query: start, end, startexcl, endexcl
    nq,         \* what NumericRange.simplify returned
    nv,         \* the value passed to Numeric.index
    nterms,     \* the term bytes Numeric.index produced for nv
    nstage,     \* "init", "simplified", "indexed"
    rqa,        \* a range query: class, start, end, startexcl, endexcl
    rqb,        \* a second range query on the same field
    rqres,      \* the last call on rqa and what it returned
    sweighting, \* the searcher's weighting model
    ctx,        \* the SearchContext last produced
    clast,      \* the call that produced ctx
    wpin,       \* the postings the iterator handed to write_postings yields
    wpi,        \* the next posting of wpin; Len(wpin) + 2 once it returned
    wpst,       \* the local variables of write_postings and the writer's log
    gruns,      \* the sorted runs handed to the merge functions, one list each
    gim,        \* what imerge yields over the runs
    gdiv,       \* what dividemerge yields over the runs
    aranges,    \* AnnotationList.ranges: name -> list of (start, end)
    alast,      \* AnnotationList._last: name -> the last (start, end) added
    afieldlen,  \* AnnotationList.fieldlen
    acall,      \* the last call on the list and the exception it raised
    aposts,     \* the postings Annotation.index returned
    aenc        \* encode_ranges of the ranges of each posting of aposts

poolVars == <<postings, size, count, runs, files, dirExists, clock, added,
              nadds, phase, out, err>>

docVars == <<dfmt, dposts, dblk, dsrc, doff, drdr, dshift, drw, dstage>>

rangeVars == <<rin, rblk, roff, rout, rstage>>

multiVars == <<pqueue, rqueue, wpc, wsub, wcur, sig, mpc, mi, mdir, mfiles,
               mlens, mclock, mruns, mout, mtasks, wbuf, wlog>>

vecVars == <<vterms, vblk, vrdr, vq, vres, vstage>>

schemaVars == <<sfields, sdyn, ssub, snext, slast, sunder>>

numVars == <<nfield, nrange, nq, nv, nterms, nstage>>

rqVars == <<rqa, rqb, rqres>>

ctxVars == <<sweighting, ctx, clast>>

wpVars == <<wpin, wpi, wpst>>

mergeVars == <<gruns, gim, gdiv>>

annoVars == <<aranges, alast, afieldlen, acall, aposts, aenc>>

vars == <<poolVars, docVars, rangeVars, multiVars, vecVars, schemaVars, numVars, rqVars, ctxVars, wpVars, mergeVars, annoVars>>

\* what the actions of one part of the model leave alone
notPool == <<docVars, rangeVars, multiVars, vecVars, schemaVars, numVars, rqVars, ctxVars, wpVars, mergeVars, annoVars>>
notDoc == <<poolVars, rangeVars, multiVars, vecVars, schemaVars, numVars, rqVars, ctxVars, wpVars, mergeVars, annoVars>>
notRange == <<poolVars, docVars, multiVars, vecVars, schemaVars, numVars, rqVars, ctxVars, wpVars, mergeVars, annoVars>>
notMulti == <<poolVars, docVars, rangeVars, vecVars, schemaVars, numVars, rqVars, ctxVars, wpVars, mergeVars, annoVars>>
notVec == <<poolVars, docVars, rangeVars, multiVars, schemaVars, numVars, rqVars, ctxVars, wpVars, mergeVars, annoVars>>
notSchema == <<poolVars, docVars, rangeVars, multiVars, vecVars, numVars, rqVars, ctxVars, wpVars, mergeVars, annoVars>>
notNum == <<poolVars, docVars, rangeVars, multiVars, vecVars, schemaVars, rqVars, ctxVars, wpVars, mergeVars, annoVars>>
notRq == <<poolVars, docVars, rangeVars, multiVars, vecVars, schemaVars, numVars, ctxVars, wpVars, mergeVars, annoVars>>
notCtx == <<poolVars, docVars, rangeVars, multiVars, vecVars, schemaVars, numVars, rqVars, wpVars, mergeVars, annoVars>>
notWp == <<poolVars, docVars, rangeVars, multiVars, vecVars, schemaVars, numVars, rqVars, ctxVars, mergeVars, annoVars>>
notMerge == <<poolVars, docVars, rangeVars, multiVars, vecVars, schemaVars, numVars, rqVars, ctxVars, wpVars, annoVars>>
notAnno == <<poolVars, docVars, rangeVars, multiVars, vecVars, schemaVars, numVars, rqVars, ctxVars, wpVars, mergeVars>>

----------------------------------------------------------------------------
(* Bounds of the model *)

MaxAdds == 3        \* add_posting calls per behaviour
NumFields == 2      \* field numbers 0 .. NumFields-1
NumTerms == 2       \* term texts <<1>> .. <<NumTerms>>
NumDocs == 2        \* document numbers 0 .. NumDocs-1
MaxFreq == 2        \* freq values 1 .. MaxFreq
MaxClock == 1       \* now() returns 0 .. MaxClock
Limit == 20         \* self.limit = limitmb * 1024 * 1024, in bytes
MaxShort == 2       \* doc-id lists of every order up to this length
MaxPosts == 33      \* the longest doc-id list
MaxPad == 2         \* the reader is opened at offsets 0 .. MaxPad
MaxRanges == 2      \* the longest list of ranges
NumProcs == 2       \* self.procs: the worker processes of a MultiPool
MaxTasks == 4       \* add_posting calls on a MultiPool per behaviour
PipeCapacity == 4   \* what the pipe of the result queue holds, in units of ResultSize
MaxVecTerms == 2    \* the longest list of vector postings
MaxTermLen == 2     \* the longest term of a vector, in bytes
MaxSchemaOps == 3   \* add and remove calls on a Schema per behaviour

Fields == 0 .. (NumFields - 1)
Terms == {<<c>> : c \in 1 .. NumTerms}
Docs == 0 .. (NumDocs - 1)
Freqs == 1 .. MaxFreq
NoData == <<>>      \* the datastring of the postings of the model

Min(a, b) == IF a <= b THEN a ELSE b
Max(a, b) == IF a >= b THEN a ELSE b

----------------------------------------------------------------------------
(* Python's ordering of strings and of posting tuples *)

\* a < b for two strings (sequences of character codes)
TextLess(a, b) ==
    \E i \in 1 .. (Min(Len(a), Len(b)) + 1) :
        /\ \A j \in 1 .. (i - 1) : a[j] = b[j]
        /\ \/ (i > Len(a) /\ i <= Len(b))
           \/ (i <= Len(a) /\ i <= Len(b) /\ a[i] < b[i])

\* p < q for two posting tuples (fieldnum, text, docnum, freq, datastring)
PostLess(p, q) ==
    \/ p[1] < q[1]
    \/ /\ p[1] = q[1]
       /\ \/ TextLess(p[2], q[2])
          \/ /\ p[2] = q[2]
             /\ \/ p[3] < q[3]
                \/ /\ p[3] = q[3]
                   /\ \/ p[4] < q[4]
                      \/ (p[4] = q[4] /\ TextLess(p[5], q[5]))

\* s with x inserted before the first element greater than x (s sorted)
RECURSIVE InsertSorted(_, _)
InsertSorted(s, x) ==
    IF s = <<>> THEN <<x>>
    ELSE IF PostLess(x, Head(s)) THEN <<x>> \o s
    ELSE <<Head(s)>> \o InsertSorted(Tail(s), x)

\* list.sort() on a list of posting tuples
RECURSIVE SortPosts(_)
SortPosts(s) ==
    IF s = <<>> THEN <<>>
    ELSE InsertSorted(SortPosts(Tail(s)), Head(s))

----------------------------------------------------------------------------
(* read_run and imerge (pools.py 69-90, 136-141) *)

\* One step of the generator read_run(filename, count) at position pos:
\* "stop" when count postings were read, "ioerror" when the file cannot be
\* opened, "eof" when marshal.load finds the file shorter than count.
RunNext(fs, run, pos) ==
    IF pos >= run[2] THEN [kind |-> "stop"]
    ELSE IF run[1] \notin DOMAIN fs THEN [kind |-> "IOError"]
    ELSE IF pos >= Len(fs[run[1]]) THEN [kind |-> "EOFError"]
    ELSE [kind |-> "item", item |-> fs[run[1]][pos + 1]]

\* the least (item, generator) pair of the heap
HeapMin(current) ==
    CHOOSE e \in current :
        \A o \in current :
            \/ o = e
            \/ PostLess(e[1], o[1])
            \/ (e[1] = o[1] /\ e[2] < o[2])

\* `for item in gen: yield item` on the last generator left
RECURSIVE Drain(_, _, _, _)
Drain(fs, run, pos, acc) ==
    LET r == RunNext(fs, run, pos) IN
    IF r.kind = "stop" THEN [items |-> acc, err |-> "none"]
    ELSE IF r.kind = "item" THEN Drain(fs, run, pos + 1, Append(acc, r.item))
    ELSE [items |-> acc, err |-> r.kind]

\* the while loop of imerge: current is the heap, pos[g] how far generator g is
RECURSIVE ImergeLoop(_, _, _, _, _)
ImergeLoop(fs, rs, current, pos, acc) ==
    IF Cardinality(current) > 1 THEN
        LET e == HeapMin(current)
            g == e[2]
            r == RunNext(fs, rs[g], pos[g])
            rest == current \ {e}
            acc2 == Append(acc, e[1])
        IN  IF r.kind = "item"
              THEN ImergeLoop(fs, rs, rest \cup {<<r.item, g>>},
                              [pos EXCEPT ![g] = @ + 1], acc2)
            ELSE IF r.kind = "stop"
              THEN ImergeLoop(fs, rs, rest, pos, acc2)
            ELSE [items |-> acc2, err |-> r.kind]
    ELSE IF current = {} THEN [items |-> acc, err |-> "none"]
    ELSE LET e == CHOOSE x \in current : TRUE
         IN  Drain(fs, rs[e[2]], pos[e[2]], Append(acc, e[1]))

\* imerge([read_run(name, count) for name, count in rs]): the postings it
\* yields and the exception that ends it, if any
imerge(fs, rs) ==
    LET firsts == [g \in 1 .. Len(rs) |-> RunNext(fs, rs[g], 0)]
        bad == {g \in 1 .. Len(rs) : firsts[g].kind \notin {"item", "stop"}}
    IN  IF bad # {}
          THEN [items |-> <<>>,
                err |-> firsts[CHOOSE g \in bad : \A h \in bad : g <= h].kind]
        ELSE ImergeLoop(fs, rs,
                 {<<firsts[g].item, g>> : g \in {h \in 1 .. Len(rs) :
                                                  firsts[h].kind = "item"}},
                 [g \in 1 .. Len(rs) |->
                     IF firsts[g].kind = "item" THEN 1 ELSE 0],
                 <<>>)

----------------------------------------------------------------------------
(* write_postings (pools.py 144-193) *)

\* The posting writer is the caller's: start returns the offset of the new
\* block (here the number of postings written before it), finish returns the
\* number of postings written since start.
WpInit ==
    [first |-> TRUE, fieldnum |-> -1, text |-> <<>>, freq |-> 0, offset |-> -1,
     inblock |-> 0, written |-> 0, log |-> <<>>, err |-> "none"]

\* postwriter.finish() followed by termtable.add(...)
WpFinishTerm(st) ==
    [st EXCEPT
        !.log = @ \o << [op |-> "finish", postcount |-> st.inblock],
                        [op |-> "add", fieldnum |-> st.fieldnum,
                         text |-> st.text, freq |-> st.freq,
                         offset |-> st.offset, postcount |-> st.inblock] >>]

\* the reset of the term variables and postwriter.start(fieldnum)
WpStartTerm(st, p) ==
    [st EXCEPT !.first = FALSE, !.fieldnum = p[1], !.text = p[2], !.freq = 0,
               !.offset = st.written, !.inblock = 0,
               !.log = @ \o << [op |-> "start", fieldnum |-> p[1],
                                text |-> p[2]] >>]

\* current_freq += freq; postwriter.write(docnum, valuestring, length)
WpWrite(st, p) ==
    [st EXCEPT !.freq = @ + p[4], !.inblock = @ + 1, !.written = @ + 1,
               !.log = @ \o << [op |-> "write", fieldnum |-> st.fieldnum,
                                text |-> st.text, docnum |-> p[3]] >>]

\* the new-term test of line 163
WpIsNewTerm(st, p) ==
    st.first \/ p[1] > st.fieldnum \/ TextLess(st.text, p[2])

\* the out-of-order test of lines 179-180
WpIsOutOfOrder(st, p) ==
    p[1] < st.fieldnum \/ (p[1] = st.fieldnum /\ TextLess(p[2], st.text))

\* WpStep that starts a new term without finishing the one before
WpStep_nofinish(st, p) ==
    IF WpIsNewTerm(st, p) THEN WpWrite(WpStartTerm(st, p), p)
    ELSE IF WpIsOutOfOrder(st, p) THEN [st EXCEPT !.err = "OutOfOrder"]
    ELSE WpWrite(st, p)

\* one iteration of the for loop
WpStep(st, p) ==
    IF WpIsNewTerm(st, p)
      THEN WpWrite(WpStartTerm(IF st.first THEN st ELSE WpFinishTerm(st), p), p)
    ELSE IF WpIsOutOfOrder(st, p)
      THEN [st EXCEPT !.err = "OutOfOrder"]
    ELSE WpWrite(st, p)

RECURSIVE WpLoop(_, _, _)
WpLoop(st, items, i) ==
    IF i > Len(items) \/ st.err # "none" THEN st
    ELSE WpLoop(WpStep(st, items[i]), items, i + 1)

\* write_postings over a posting iterator that yields stream.items and then
\* stops (stream.err = "none") or raises stream.err
write_postings(stream) ==
    LET st == WpLoop(WpInit, stream.items, 1) IN
    IF st.err # "none" THEN st
    ELSE IF stream.err # "none" THEN [st EXCEPT !.err = stream.err]
    ELSE IF ~st.first THEN WpFinishTerm(st)
    ELSE st

----------------------------------------------------------------------------
(* TempfilePool (pools.py 241-371) *)

NoOut == [log |-> <<>>, err |-> "none"]

PoolInit ==
    /\ postings = <<>>
    /\ size = 0
    /\ count = 0
    /\ runs = <<>>
    /\ files = <<>>
    /\ dirExists = TRUE
    /\ clock = 0
    /\ added = {}
    /\ nadds = 0
    /\ phase = "open"
    /\ out = NoOut
    /\ err = "none"

\* dump_run without self.postings.sort()
dump_run_nosort(t) ==
    IF size > 0 THEN
        IF ~dirExists
          THEN [postings |-> postings, size |-> size, count |-> count,
                runs |-> runs, files |-> files, err |-> "IOError"]
        ELSE [postings |-> <<>>, size |-> 0, count |-> 0,
              runs |-> Append(runs, <<t, count>>),
              files |-> [n \in (DOMAIN files) \cup {t} |->
                            IF n = t THEN postings ELSE files[n]],
              err |-> "none"]
    ELSE [postings |-> postings, size |-> size, count |-> count,
          runs |-> runs, files |-> files, err |-> "none"]

\* The state after dump_run() when now() returns t (pools.py 299-311).  A
\* record of the fields it may change; err is "IOError" when open() fails
\* because the directory is gone.
dump_run(t) ==
    IF size > 0 THEN
        IF ~dirExists
          THEN [postings |-> postings, size |-> size, count |-> count,
                runs |-> runs, files |-> files, err |-> "IOError"]
        ELSE [postings |-> <<>>, size |-> 0, count |-> 0,
              runs |-> Append(runs, <<t, count>>),
              files |-> [n \in (DOMAIN files) \cup {t} |->
                            IF n = t THEN SortPosts(postings) ELSE files[n]],
              err |-> "none"]
    ELSE [postings |-> postings, size |-> size, count |-> count,
          runs |-> runs, files |-> files, err |-> "none"]

\* the byte size add_posting accounts for one posting (pools.py 281)
PostingSize(text, datastring) == Len(text) + 2 + 8 + Len(datastring)

\* TempfilePool.add_posting(fieldnum, text, docnum, freq, datastring)
AddPosting ==
    /\ phase \in {"open", "cancelled"}
    /\ nadds < MaxAdds
    /\ \E f \in Fields, tx \in Terms, d \in Docs, fr \in Freqs, t \in clock .. MaxClock :
        /\ \A p \in added : <<p[1], p[2], p[3]>> # <<f, tx, d>>
        /\ LET spill == size >= Limit
               s == IF spill THEN dump_run(t)
                    ELSE [postings |-> postings, size |-> size, count |-> count,
                          runs |-> runs, files |-> files, err |-> "none"]
               p == <<f, tx, d, fr, NoData>>
           IN  /\ (~spill \/ size = 0) => t = clock
               /\ clock' = t
               /\ nadds' = nadds + 1
               /\ runs' = s.runs
               /\ files' = s.files
               /\ err' = s.err
               /\ IF s.err = "none"
                    THEN /\ size' = s.size + PostingSize(tx, NoData)
                         /\ postings' = Append(s.postings, p)
                         /\ count' = s.count + 1
                         /\ added' = added \cup {p}
                    ELSE UNCHANGED <<size, postings, count, added>>
    /\ UNCHANGED <<dirExists, phase, out>>
    /\ UNCHANGED notPool

\* TempfilePool.dump_run() called by the owner of the pool
DumpRun ==
    /\ phase \in {"open", "cancelled"}
    /\ \E t \in clock .. MaxClock :
        LET s == dump_run(t) IN
        /\ size = 0 => t = clock
        /\ clock' = t
        /\ postings' = s.postings
        /\ size' = s.size
        /\ count' = s.count
        /\ runs' = s.runs
        /\ files' = s.files
        /\ err' = s.err
    /\ UNCHANGED <<dirExists, added, nadds, phase, out>>
    /\ UNCHANGED notPool

\* the posting iterator finish builds (pools.py 357-366)
FinishStream ==
    IF postings # <<>> /\ Len(runs) = 0
      THEN [items |-> SortPosts(postings), err |-> "none"]
    ELSE IF postings = <<>> /\ runs = <<>>
      THEN [items |-> <<>>, err |-> "none"]
    ELSE imerge(files, runs)

\* TempfilePool.finish(doccount, lengthfile, termtable, postingwriter)
Finish ==
    /\ phase = "open"
    /\ LET st == write_postings(FinishStream) IN
        /\ out' = [log |-> st.log, err |-> st.err]
        /\ err' = st.err
        /\ IF st.err = "none"
             THEN \* self.cleanup(): shutil.rmtree(self._dir)
                  /\ dirExists' = FALSE
                  /\ files' = <<>>
                  /\ phase' = "finished"
             ELSE \* the exception leaves finish before cleanup
                  /\ phase' = "failed"
                  /\ UNCHANGED <<dirExists, files>>
    /\ UNCHANGED <<postings, size, count, runs, clock, added, nadds>>
    /\ UNCHANGED notPool

\* TempfilePool.cancel(): self.cleanup()
Cancel ==
    /\ phase \in {"open", "failed"}
    /\ dirExists' = FALSE
    /\ files' = <<>>
    /\ phase' = "cancelled"
    /\ err' = "none"
    /\ UNCHANGED <<postings, size, count, runs, clock, added, nadds, out>>
    /\ UNCHANGED notPool


----------------------------------------------------------------------------
(* Byte strings, struct and array (basic.py 28-38, 79-86) *)

\* whoosh.system.IS_LITTLE: the byte order of the host
IS_LITTLE == TRUE

\* Python's s[a:b] on a sequence, a and b counted from 0 and clamped
Slice(s, a, b) == SubSeq(s, Min(a, Len(s)) + 1, Min(b, Len(s)))

RECURSIVE Flatten(_)
Flatten(ss) == IF ss = <<>> THEN <<>> ELSE Head(ss) \o Flatten(Tail(ss))

RECURSIVE MaxOf(_)
MaxOf(s) == IF Len(s) = 1 THEN s[1] ELSE Max(s[1], MaxOf(Tail(s)))

RECURSIVE MinOf(_)
MinOf(s) == IF Len(s) = 1 THEN s[1] ELSE Min(s[1], MinOf(Tail(s)))

Reverse(s) == [i \in 1 .. Len(s) |-> s[Len(s) + 1 - i]]

\* the n bytes of v, least significant first
RECURSIVE ToLE(_, _)
ToLE(v, n) == IF n = 0 THEN <<>> ELSE <<v % 256>> \o ToLE(v \div 256, n - 1)

RECURSIVE FromLE(_)
FromLE(bs) == IF bs = <<>> THEN 0 ELSE bs[1] + 256 * FromLE(Tail(bs))

\* the bytes of one array item in the byte order of the host
ToNative(v, n) == IF IS_LITTLE THEN ToLE(v, n) ELSE Reverse(ToLE(v, n))
FromNative(bs) == IF IS_LITTLE THEN FromLE(bs) ELSE FromLE(Reverse(bs))

\* array.itemsize / struct.calcsize of a typecode
ItemSize(tc) ==
    CASE tc = "B" -> 1
      [] tc = "H" -> 2
      [] tc \in {"I", "i", "f"} -> 4
      [] tc \in {"Q", "q"} -> 8

\* typecode.encode("ascii") and its inverse
Ord(tc) ==
    CASE tc = "B" -> 66 [] tc = "H" -> 72 [] tc = "I" -> 73 [] tc = "Q" -> 81
      [] tc = "q" -> 113 [] tc = "0" -> 48 [] tc = "1" -> 49

Chr(b) ==
    CASE b = 66 -> "B" [] b = 72 -> "H" [] b = 73 -> "I" [] b = 81 -> "Q"
      [] b = 113 -> "q" [] b = 48 -> "0" [] b = 49 -> "1"
      [] OTHER -> "?"

\* whoosh.util.numlists.min_array_code: the smallest unsigned typecode
min_array_code(maxval) ==
    IF maxval <= 255 THEN "B"
    ELSE IF maxval <= 65535 THEN "H"
    ELSE IF maxval \div 65536 <= 65535 THEN "I"
    ELSE "Q"

\* whoosh.util.numlists.delta_encode / delta_decode
delta_encode(nums) ==
    [i \in 1 .. Len(nums) |-> IF i = 1 THEN nums[1] ELSE nums[i] - nums[i - 1]]

RECURSIVE PrefixSum(_, _)
PrefixSum(s, i) == IF i = 0 THEN 0 ELSE s[i] + PrefixSum(s, i - 1)

delta_decode(deltas) == [i \in 1 .. Len(deltas) |-> PrefixSum(deltas, i)]

\* min_array(nums): an array of the smallest typecode that holds max(nums)
min_array(nums) == [code |-> min_array_code(MaxOf(nums)), items |-> nums]

\* array.tobytes(), array.frombytes(bs) and array.byteswap()
ArrayToBytes(arr) ==
    Flatten([i \in 1 .. Len(arr.items) |->
                ToNative(arr.items[i], ItemSize(arr.code))])

BytesToArray(tc, bs) ==
    [code |-> tc,
     items |-> [i \in 1 .. (Len(bs) \div ItemSize(tc)) |->
                   FromNative(SubSeq(bs, (i - 1) * ItemSize(tc) + 1,
                                     i * ItemSize(tc)))]]

ByteSwap(arr) ==
    [arr EXCEPT !.items =
        [i \in 1 .. Len(arr.items) |->
            FromLE(Reverse(ToLE(arr.items[i], ItemSize(arr.code))))]]

\* struct.Struct("<" + typecode * n).pack / unpack: little-endian always
PackLE(tc, nums) ==
    Flatten([i \in 1 .. Len(nums) |-> ToLE(nums[i], ItemSize(tc))])

UnpackLE(tc, bs) ==
    [i \in 1 .. (Len(bs) \div ItemSize(tc)) |->
        FromLE(SubSeq(bs, (i - 1) * ItemSize(tc) + 1, i * ItemSize(tc)))]

----------------------------------------------------------------------------
(* Flags and formats (basic.py 50-74) *)

HAS_LENGTHS == 1
HAS_WEIGHTS == 2
HAS_POSITIONS == 4
HAS_RANGES == 8
HAS_PAYLOADS == 16
MIN_POSTS_FLAG == 128
MIN_TYPE_CODES == <<"B", "H", "I", "q">>
USE_MIN == TRUE

\* the size of doc_header = struct.Struct("<BH2ciiiii")
DocHeaderSize == 25

Formats ==
    [has_lengths : BOOLEAN, has_weights : BOOLEAN, has_positions : BOOLEAN,
     has_ranges : BOOLEAN, has_payloads : BOOLEAN]

\* make_flags with the payload flag on the bit of MIN_POSTS_FLAG
make_flags_highbit(has_lengths, has_weights, has_positions, has_ranges, has_payloads) ==
    (IF has_lengths THEN HAS_LENGTHS ELSE 0)
    + (IF has_weights THEN HAS_WEIGHTS ELSE 0)
    + (IF has_positions THEN HAS_POSITIONS ELSE 0)
    + (IF has_ranges THEN HAS_RANGES ELSE 0)
    + (IF has_payloads THEN MIN_POSTS_FLAG ELSE 0)

make_flags(has_lengths, has_weights, has_positions, has_ranges, has_payloads) ==
    (IF has_lengths THEN HAS_LENGTHS ELSE 0)
    + (IF has_weights THEN HAS_WEIGHTS ELSE 0)
    + (IF has_positions THEN HAS_POSITIONS ELSE 0)
    + (IF has_ranges THEN HAS_RANGES ELSE 0)
    + (IF has_payloads THEN HAS_PAYLOADS ELSE 0)

\* flags & bit, for a one-bit mask
HasBit(flags, bit) == (flags \div bit) % 2 = 1

\* postform.Format.only_docids(): the format stores no feature
only_docids(fmt) ==
    ~(fmt.has_lengths \/ fmt.has_weights \/ fmt.has_positions
      \/ fmt.has_ranges \/ fmt.has_payloads)

----------------------------------------------------------------------------
(* BasicIO: encoding a doc list (basic.py 192-352, 368-398, 496-518) *)

\* A raw posting is (docid, termbytes, length, weight, positions, ranges,
\* payloads), the last three already encoded as bytes.
DOCID == 1
LENGTH == 3
WEIGHT == 4
POSITIONS == 5
RANGES == 6
PAYLOADS == 7

\* PostingsIO._extract(posts, member)
Extract(posts, member) == [i \in 1 .. Len(posts) |-> posts[i][member]]

Failed(e) == [err |-> e, bytes |-> <<>>]
Encoded(bs) == [err |-> "none", bytes |-> bs]

\* BasicIO.encode_docids(docids): (typecode, bytes) or ValueError
encode_docids(docids) ==
    IF docids = <<>> THEN [err |-> "ValueError", code |-> "?", bytes |-> <<>>]
    ELSE IF \E i \in 1 .. Len(docids) : docids[i] < 0
      THEN [err |-> "ValueError", code |-> "?", bytes |-> <<>>]
    ELSE IF \E i \in 1 .. Len(docids) :
                docids[i] <= (IF i = 1 THEN -1 ELSE docids[i - 1])
      THEN [err |-> "ValueError", code |-> "?", bytes |-> <<>>]
    ELSE LET docarray == min_array(delta_encode(docids))
             stored == IF ~IS_LITTLE THEN ByteSwap(docarray) ELSE docarray
         IN  [err |-> "none", code |-> docarray.code,
              bytes |-> ArrayToBytes(stored)]

\* decode_docids without the delta decoding
decode_docids_raw(src, offset, typecode, n) ==
    LET end == offset + ItemSize(typecode) * n
        docarray == BytesToArray(typecode, Slice(src, offset, end))
    IN  [end |-> end, docids |-> docarray.items]

\* BasicIO.decode_docids(src, offset, typecode, count): (end, docids)
decode_docids(src, offset, typecode, n) ==
    LET end == offset + ItemSize(typecode) * n
        docarray == BytesToArray(typecode, Slice(src, offset, end))
        loaded == IF ~IS_LITTLE THEN ByteSwap(docarray) ELSE docarray
    IN  [end |-> end, docids |-> delta_decode(loaded.items)]

\* BasicIO.extract_lengths(fmt, posts): (minlen, maxlen, len_bytes)
extract_lengths(fmt, posts) ==
    IF fmt.has_lengths \/ fmt.has_weights
      THEN LET lengths == Extract(posts, LENGTH) IN
           [minlen |-> MinOf(lengths), maxlen |-> MaxOf(lengths),
            bytes |-> IF fmt.has_lengths THEN lengths ELSE <<>>]
    ELSE [minlen |-> 1, maxlen |-> 1, bytes |-> <<>>]

\* BasicIO.encode_weights(weights) for whole-number weights
encode_weights(weights) ==
    IF \A i \in 1 .. Len(weights) : weights[i] = 1
      THEN [code |-> "1", bytes |-> <<>>]
    ELSE LET arr == min_array(weights)
             stored == IF ~IS_LITTLE THEN ByteSwap(arr) ELSE arr
         IN  [code |-> arr.code, bytes |-> ArrayToBytes(stored)]

\* BasicIO.extract_weights(fmt, posts)
extract_weights(fmt, posts) ==
    IF fmt.has_weights THEN encode_weights(Extract(posts, WEIGHT))
    ELSE [code |-> "0", bytes |-> <<>>]

\* the start offset of each chunk (basic.py 506-510)
ChunkOffsets(lens) ==
    [i \in 1 .. Len(lens) |-> IF i = 1 THEN 0 ELSE PrefixSum(lens, i - 1)]

\* BasicIO.encode_chunk_list(chunks)
encode_chunk_list(chunks) ==
    LET lens == [i \in 1 .. Len(chunks) |-> Len(chunks[i])]
        len_array == min_array(lens)
        len_stored == IF ~IS_LITTLE THEN ByteSwap(len_array) ELSE len_array
        offsets_array == min_array(ChunkOffsets(len_stored.items))
        header == <<Ord(offsets_array.code), Ord(len_array.code)>>
                  \o ToLE(Len(chunks), 4)
    IN  header \o ArrayToBytes(offsets_array) \o ArrayToBytes(len_stored)
        \o Flatten(chunks)

\* BasicIO.extract_features(fmt, posts): (pos_bytes, range_bytes, pay_bytes)
extract_features(fmt, posts) ==
    [pos |-> IF fmt.has_positions
               THEN encode_chunk_list(Extract(posts, POSITIONS)) ELSE <<>>,
     rng |-> IF fmt.has_ranges
               THEN encode_chunk_list(Extract(posts, RANGES)) ELSE <<>>,
     pay |-> IF fmt.has_payloads
               THEN encode_chunk_list(Extract(posts, PAYLOADS)) ELSE <<>>]

\* BasicIO.pack_doc_header
pack_doc_header(flags, n, minlen, maxlen, ids_typecode, weights_typecode, poslen, rangeslen, paylen) ==
    <<flags>> \o ToLE(n, 2) \o <<Ord(ids_typecode), Ord(weights_typecode)>>
    \o ToLE(minlen, 4) \o ToLE(maxlen, 4)
    \o ToLE(poslen, 4) \o ToLE(rangeslen, 4) \o ToLE(paylen, 4)

\* MIN_TYPE_CODES.index(typecode), 0 when the typecode is not in the tuple
MinTypeIndex(typecode) ==
    IF \E i \in 1 .. Len(MIN_TYPE_CODES) : MIN_TYPE_CODES[i] = typecode
      THEN CHOOSE i \in 1 .. Len(MIN_TYPE_CODES) : MIN_TYPE_CODES[i] = typecode
    ELSE 0

\* BasicIO._minimal_doclist_bytes(posts)
minimal_doclist_bytes(posts) ==
    LET docids == Extract(posts, DOCID)
        typecode == min_array_code(MaxOf(docids))
        typenum == MinTypeIndex(typecode) - 1
        flags == MIN_POSTS_FLAG + (typenum * 32) + (Len(docids) - 1)
    IN  IF typenum < 0 THEN Failed("ValueError")
        ELSE Encoded(<<flags>> \o PackLE(typecode, docids))

\* the test of basic.py 216 with < 32 for <= 32
UseMinimal_lt32(fmt, posts) ==
    USE_MIN /\ only_docids(fmt) /\ 0 < Len(posts) /\ Len(posts) < 32

\* the test of basic.py 216
UseMinimal(fmt, posts) ==
    USE_MIN /\ only_docids(fmt) /\ 0 < Len(posts) /\ Len(posts) <= 32

\* BasicIO.doclist_to_bytes(fmt, posts)
doclist_to_bytes(fmt, posts) ==
    IF posts = <<>> THEN Failed("ValueError")
    ELSE IF UseMinimal(fmt, posts) THEN minimal_doclist_bytes(posts)
    ELSE LET flags == make_flags(fmt.has_lengths, fmt.has_weights,
                                 fmt.has_positions, fmt.has_ranges,
                                 fmt.has_payloads)
             ids == encode_docids(Extract(posts, DOCID))
             lens == extract_lengths(fmt, posts)
             wts == extract_weights(fmt, posts)
             feat == extract_features(fmt, posts)
             header == pack_doc_header(flags, Len(posts), lens.minlen,
                           lens.maxlen, ids.code, wts.code,
                           Len(feat.pos), Len(feat.rng), Len(feat.pay))
         IN  IF ids.err # "none" THEN Failed(ids.err)
             ELSE Encoded(header \o ids.bytes \o lens.bytes \o wts.bytes
                          \o feat.pos \o feat.rng \o feat.pay)

----------------------------------------------------------------------------
(* Readers (basic.py 166-187, 557-612, 710-790; postings.py 365-435) *)

\* a method's result: a value, or the exception it raised
Ret(v) == [err |-> "none", val |-> v]
Raise(e) == [err |-> e, val |-> 0]

NoReader == [kind |-> "none"]

\* BasicIO.unpack_doc_header(src, offset)
unpack_doc_header(src, offset) ==
    LET h == Slice(src, offset, offset + DocHeaderSize) IN
    [flags |-> h[1],
     count |-> FromLE(SubSeq(h, 2, 3)),
     ids_typecode |-> Chr(h[4]),
     weights_typecode |-> Chr(h[5]),
     minlen |-> FromLE(SubSeq(h, 6, 9)),
     maxlen |-> FromLE(SubSeq(h, 10, 13)),
     poslen |-> FromLE(SubSeq(h, 14, 17)),
     rangeslen |-> FromLE(SubSeq(h, 18, 21)),
     paylen |-> FromLE(SubSeq(h, 22, 25)),
     h_end |-> offset + DocHeaderSize]

\* BasicIO.compute_weights_size(typecode)
compute_weights_size(typecode) ==
    IF typecode \in {"0", "1"} THEN 0 ELSE ItemSize(typecode)

\* BasicDocListReader.__init__(src, offset) with _setup_offsets
BasicDocListReader(src, offset) ==
    LET h == unpack_doc_header(src, offset)
        ids == decode_docids(src, h.h_end, h.ids_typecode, h.count)
        has_lengths == HasBit(h.flags, HAS_LENGTHS)
        after_lens == IF has_lengths THEN ids.end + h.count ELSE ids.end
        weights_size == compute_weights_size(h.weights_typecode) * h.count
        poses_offset == after_lens + weights_size
        ranges_offset == poses_offset + h.poslen
        pays_offset == ranges_offset + h.rangeslen
    IN  [kind |-> "basic", src |-> src, offset |-> offset,
         count |-> h.count, ids_tc |-> h.ids_typecode,
         weights_tc |-> h.weights_typecode,
         min_len |-> h.minlen, max_len |-> h.maxlen,
         h_end |-> h.h_end, ids |-> ids.docids,
         has_lengths |-> has_lengths,
         has_weights |-> HasBit(h.flags, HAS_WEIGHTS),
         has_positions |-> HasBit(h.flags, HAS_POSITIONS),
         has_ranges |-> HasBit(h.flags, HAS_RANGES),
         has_payloads |-> HasBit(h.flags, HAS_PAYLOADS),
         lens_offset |-> IF has_lengths THEN ids.end ELSE -1,
         weights_offset |-> after_lens,
         poses_offset |-> poses_offset, ranges_offset |-> ranges_offset,
         pays_offset |-> pays_offset,
         end_offset |-> pays_offset + h.paylen]

\* MinimalDocListReader(docids)
MinimalDocListReader(docids) ==
    [kind |-> "minimal", docids |-> docids, raw |-> <<>>]

\* BasicIO.doclist_reader(src, offset)
doclist_reader(src, offset) ==
    IF offset >= Len(src) THEN Raise("IndexError")
    ELSE LET flag_byte == src[offset + 1] IN
         IF USE_MIN /\ HasBit(flag_byte, MIN_POSTS_FLAG)
           THEN LET typenum == (flag_byte \div 32) % 4
                    typecode == MIN_TYPE_CODES[typenum + 1]
                    length == (flag_byte % 32) + 1
                    ssize == ItemSize(typecode) * length
                    data == Slice(src, offset + 1, offset + ssize + 1)
                IN  IF Len(data) # ssize THEN Raise("struct.error")
                    ELSE Ret(MinimalDocListReader(UnpackLE(typecode, data)))
         ELSE Ret(BasicDocListReader(src, offset))

\* reader.all_ids()
all_ids(r) == IF r.kind = "minimal" THEN r.docids ELSE r.ids

\* BasicPostingReader.raw_bytes()
raw_bytes(r) ==
    IF r.kind = "minimal" THEN r.raw ELSE Slice(r.src, r.offset, r.end_offset)

\* reader.min_length()
min_length(r) == IF r.kind = "minimal" THEN Ret(1) ELSE Ret(r.min_len)

\* reader.max_length(): on the minimal reader a staticmethod declared with a
\* self parameter, so the call reader.max_length() lacks an argument
max_length(r) ==
    IF r.kind = "minimal" THEN Raise("TypeError") ELSE Ret(r.max_len)

\* bytearray slice assignment raw[a:b] = new
SliceAssign(raw, a, b, new) ==
    LET lo == Min(a, Len(raw))
        hi == Max(lo, Min(b, Len(raw)))
    IN  SubSeq(raw, 1, lo) \o new \o SubSeq(raw, hi + 1, Len(raw))

\* the place in rawbytes where rewrite_raw_bytes puts the new ids
RewriteOffset(r) == r.h_end

\* BasicDocListReader.rewrite_raw_bytes(docmap_get), docmap_get(docid, docid)
\* being docmap[docid]; DocListReader.rewrite_raw_bytes on the minimal reader
rewrite_raw_bytes(r, docmap) ==
    IF r.kind = "minimal" THEN Failed("Exception")
    ELSE LET offset == RewriteOffset(r)
             rawbytes == raw_bytes(r)
             docids == [i \in 1 .. Len(r.ids) |-> docmap[r.ids[i]]]
             new == encode_docids(docids)
         IN  IF new.err # "none" THEN Failed(new.err)
             ELSE IF new.code # r.ids_tc THEN Failed("ValueError")
             ELSE Encoded(SliceAssign(rawbytes, offset,
                                      offset + Len(new.bytes), new.bytes))

----------------------------------------------------------------------------
(* The doc-list codec applied to bounded inputs *)

\* the doc ids of the inputs: the edges of the typecodes B, H and I
IdVals == {0, 1, 255, 256, 65535, 65536}

RECURSIVE SeqsUpTo(_, _)
SeqsUpTo(S, n) ==
    IF n = 0 THEN {<<>>}
    ELSE LET shorter == SeqsUpTo(S, n - 1) IN
         shorter \cup {Append(q, x) : q \in {r \in shorter : Len(r) = n - 1},
                                      x \in S}

\* every doc-id list up to MaxShort ids, sorted or not
ShortLists == SeqsUpTo(IdVals, MaxShort)

\* the long doc-id lists, around the 32 postings of the minimal encoding
LongLists ==
    {[i \in 1 .. n |-> base + (i - 1) * step] :
        n \in (MaxPosts - 2) .. MaxPosts, base \in {0, 65536}, step \in {1, 300}}

IdLists == ShortLists \cup LongLists

\* the lengths and weights of the postings of an input
Variants == 1 .. 3
LenOf(v, i) == IF v = 1 THEN 1 ELSE IF (i % 2 = 1) = (v = 2) THEN 2 ELSE 5
WeightOf(v, i) == IF v = 1 THEN 1 ELSE IF i % 2 = 1 THEN 1 ELSE v * 100

\* raw posting i of an input: its features are encoded already
RawPost(ids, v, i) ==
    <<ids[i], <<>>, LenOf(v, i), WeightOf(v, i),
      <<66, i % 4>>, <<66, 0, i % 3>>, IF i % 2 = 1 THEN <<>> ELSE <<7, 7, 7>> >>

RawPosts(ids, v) == [i \in 1 .. Len(ids) |-> RawPost(ids, v, i)]

\* the bytes before and after the block in the buffer it is read from
PadByte == 255
Buffer(off, block) == [i \in 1 .. off |-> PadByte] \o block \o <<PadByte>>

\* the doc map of a merge: every doc id moves up by k
Shifts == {0, 1, 300}
ShiftMap(r, k) == [d \in {all_ids(r)[i] : i \in 1 .. Len(all_ids(r))} |-> d + k]

DocIdle ==
    /\ dfmt = [f \in {} |-> 0]
    /\ dposts = <<>>
    /\ dblk = Failed("none")
    /\ dsrc = <<>>
    /\ doff = 0
    /\ drdr = Raise("none")
    /\ dshift = 0
    /\ drw = Failed("none")
    /\ dstage = "idle"

DocInit ==
    /\ dfmt \in Formats
    /\ \E ids \in IdLists, v \in Variants : dposts = RawPosts(ids, v)
    /\ dblk = Failed("none")
    /\ dsrc = <<>>
    /\ doff = 0
    /\ drdr = Raise("none")
    /\ dshift = 0
    /\ drw = Failed("none")
    /\ dstage = "input"

\* block = BasicIO().doclist_to_bytes(fmt, posts)
DocEncode ==
    /\ dstage = "input"
    /\ dblk' = doclist_to_bytes(dfmt, dposts)
    /\ dstage' = "encoded"
    /\ UNCHANGED <<dfmt, dposts, dsrc, doff, drdr, dshift, drw>>
    /\ UNCHANGED notDoc

\* reader = BasicIO().doclist_reader(src, offset), the block lying at offset
DocOpen ==
    /\ dstage = "encoded"
    /\ dblk.err = "none"
    /\ \E off \in 0 .. MaxPad :
        /\ doff' = off
        /\ dsrc' = Buffer(off, dblk.bytes)
        /\ drdr' = doclist_reader(Buffer(off, dblk.bytes), off)
    /\ dstage' = "opened"
    /\ UNCHANGED <<dfmt, dposts, dblk, dshift, drw>>
    /\ UNCHANGED notDoc

\* reader.rewrite_raw_bytes(docmap.get)
DocRewrite ==
    /\ dstage = "opened"
    /\ drdr.err = "none"
    /\ \E k \in Shifts :
        /\ dshift' = k
        /\ drw' = rewrite_raw_bytes(drdr.val, ShiftMap(drdr.val, k))
    /\ dstage' = "rewritten"
    /\ UNCHANGED <<dfmt, dposts, dblk, dsrc, doff, drdr>>
    /\ UNCHANGED notDoc

----------------------------------------------------------------------------
(* The range codec (basic.py 442-483) *)

\* the loop of encode_ranges: the deltas of ranges[i ..], or ValueError
RECURSIVE RangeDeltas(_, _, _, _)
RangeDeltas(ranges, i, base, deltas) ==
    IF i > Len(ranges) THEN Ret(deltas)
    ELSE LET start == ranges[i][1]
             end == ranges[i][2]
         IN  IF start < base THEN Raise("ValueError")
             ELSE IF end < start THEN Raise("ValueError")
             ELSE RangeDeltas(ranges, i + 1, end,
                              deltas \o <<start - base, end - start>>)

\* BasicIO.encode_ranges(ranges): the typecode byte, then deltas.tobytes()
encode_ranges(ranges) ==
    LET d == RangeDeltas(ranges, 1, 0, <<>>) IN
    IF d.err # "none" THEN Failed(d.err)
    ELSE LET deltas == min_array(d.val)
         IN  Encoded(<<Ord(deltas.code)>> \o ArrayToBytes(deltas))

\* the loop of decode_ranges that zips the indices into pairs
RECURSIVE RangePairs(_, _, _, _)
RangePairs(indices, i, base, cs) ==
    IF i > Len(indices) THEN cs
    ELSE LET start == base + indices[i]
             end == start + indices[i + 1]
         IN  RangePairs(indices, i + 2, end, Append(cs, <<start, end>>))

\* BasicIO.decode_ranges(src, offset, size)
decode_ranges(src, offset, nbytes) ==
    IF nbytes = 0 THEN Ret(<<>>)
    ELSE LET typecode == Chr(Slice(src, offset, offset + 1)[1])
             read == BytesToArray(typecode, Slice(src, offset + 1, offset + nbytes))
             indices == IF IS_LITTLE THEN ByteSwap(read) ELSE read
         IN  IF Len(indices.items) % 2 # 0 THEN Raise("Exception")
             ELSE Ret(RangePairs(indices.items, 1, 0, <<>>))

\* the inputs of the range codec: the values sit on both sides of the bounds
\* of the typecodes B, H and I
RangeVals == {0, 1, 256, 65536}
RangePairsIn == RangeVals \X RangeVals

RangeLists ==
    UNION {[1 .. n -> RangePairsIn] : n \in 1 .. MaxRanges}

RangeIdle ==
    /\ rin = <<>>
    /\ rblk = Failed("none")
    /\ roff = 0
    /\ rout = Raise("none")
    /\ rstage = "idle"

RangeInit ==
    /\ rin \in RangeLists
    /\ rblk = Failed("none")
    /\ roff = 0
    /\ rout = Raise("none")
    /\ rstage = "input"

\* a call of encode_ranges(rin)
RangeEncode ==
    /\ rstage = "input"
    /\ rblk' = encode_ranges(rin)
    /\ rstage' = "encoded"
    /\ UNCHANGED <<rin, roff, rout>>
    /\ UNCHANGED notRange

\* a call of decode_ranges on a buffer that holds the bytes at offset off
RangeDecode ==
    /\ rstage = "encoded"
    /\ rblk.err = "none"
    /\ \E off \in 0 .. MaxPad :
        /\ roff' = off
        /\ rout' = decode_ranges(Buffer(off, rblk.bytes), off, Len(rblk.bytes))
    /\ rstage' = "decoded"
    /\ UNCHANGED <<rin, rblk>>
    /\ UNCHANGED notRange

----------------------------------------------------------------------------
(* bimerge, dividemerge and read_run (pools.py 92-141) *)

\* a posting iterator: the items it yields, then StopIteration (err = "none")
\* or the exception err
StreamNext(it, i) ==
    IF i < Len(it.items) THEN [kind |-> "item", item |-> it.items[i + 1]]
    ELSE IF it.err = "none" THEN [kind |-> "stop"]
    ELSE [kind |-> it.err]

\* `for p in it: yield p` after acc, from position i of it
StreamRest(it, i, acc) ==
    [items |-> acc \o SubSeq(it.items, i + 1, Len(it.items)), err |-> it.err]

\* read_run(filename, count) over the run files fs
read_run(fs, run) ==
    IF run[1] \notin DOMAIN fs THEN [items |-> <<>>, err |-> "IOError"]
    ELSE IF run[2] <= Len(fs[run[1]])
      THEN [items |-> SubSeq(fs[run[1]], 1, run[2]), err |-> "none"]
    ELSE [items |-> fs[run[1]], err |-> "EOFError"]

\* the while loop of bimerge: p1 and p2 are the postings in hand, i and j how
\* far iter1 and iter2 have been read
RECURSIVE BimergeLoop(_, _, _, _, _, _, _)
BimergeLoop(iter1, iter2, i, j, p1, p2, acc) ==
    IF PostLess(p1, p2)
      THEN LET n == StreamNext(iter1, i) IN
           IF n.kind = "item"
             THEN BimergeLoop(iter1, iter2, i + 1, j, n.item, p2, Append(acc, p1))
           ELSE IF n.kind = "stop" THEN StreamRest(iter2, j, Append(acc, p1))
           ELSE [items |-> Append(acc, p1), err |-> n.kind]
    ELSE LET n == StreamNext(iter2, j) IN
         IF n.kind = "item"
           THEN BimergeLoop(iter1, iter2, i, j + 1, p1, n.item, Append(acc, p2))
         ELSE IF n.kind = "stop" THEN StreamRest(iter1, i, Append(acc, p2))
         ELSE [items |-> Append(acc, p2), err |-> n.kind]

\* bimerge(iter1, iter2)
bimerge(iter1, iter2) ==
    LET n1 == StreamNext(iter1, 0) IN
    IF n1.kind = "stop" THEN StreamRest(iter2, 0, <<>>)
    ELSE IF n1.kind # "item" THEN [items |-> <<>>, err |-> n1.kind]
    ELSE LET n2 == StreamNext(iter2, 0) IN
         IF n2.kind = "stop" THEN StreamRest(iter1, 1, <<>>)
         ELSE IF n2.kind # "item" THEN [items |-> <<>>, err |-> n2.kind]
         ELSE BimergeLoop(iter1, iter2, 1, 1, n1.item, n2.item, <<>>)

\* dividemerge(iters)
RECURSIVE dividemerge(_)
dividemerge(iters) ==
    IF Len(iters) = 0 THEN [items |-> <<>>, err |-> "none"]
    ELSE IF Len(iters) = 1 THEN iters[1]
    ELSE LET mid == Len(iters) \div 2
         IN  bimerge(dividemerge(SubSeq(iters, 1, mid)),
                     dividemerge(SubSeq(iters, mid + 1, Len(iters))))

----------------------------------------------------------------------------
(* MultiPool and PoolWritingTask (pools.py 376-474) *)

Workers == 1 .. NumProcs

StopTask == <<"stop">>
PostTask(p) == <<"post", p>>

\* a fresh TempfilePool of a worker
NoSub == [postings |-> <<>>, size |-> 0, count |-> 0, runs |-> <<>>]
NoPost == <<>>

\* the tuple a worker puts on the result queue, and no tuple
Result(taskruns, lenfilename) == [runs |-> taskruns, lenfile |-> lenfilename]
NoResult == Result(<<>>, 0)

MultiIdle ==
    /\ pqueue = <<>>
    /\ rqueue = <<>>
    /\ wpc = [w \in Workers |-> "exited"]
    /\ wsub = [w \in Workers |-> NoSub]
    /\ wcur = [w \in Workers |-> NoPost]
    /\ sig = [w \in Workers |-> "none"]
    /\ mpc = "idle"
    /\ mi = 1
    /\ mdir = FALSE
    /\ mfiles = <<>>
    /\ mlens = {}
    /\ mclock = 0
    /\ mruns = [runs |-> <<>>, lens |-> <<>>]
    /\ mout = NoOut
    /\ mtasks = <<>>
    /\ wbuf = [w \in Workers |-> NoResult]
    /\ wlog = [w \in Workers |-> <<>>]

\* MultiPool.__init__: the directory is made and every task is started
MultiInit ==
    /\ pqueue = <<>>
    /\ rqueue = <<>>
    /\ wpc = [w \in Workers |-> "loop"]
    /\ wsub = [w \in Workers |-> NoSub]
    /\ wcur = [w \in Workers |-> NoPost]
    /\ sig = [w \in Workers |-> "none"]
    /\ mpc = "open"
    /\ mi = 1
    /\ mdir = TRUE
    /\ mfiles = <<>>
    /\ mlens = {}
    /\ mclock = 0
    /\ mruns = [runs |-> <<>>, lens |-> <<>>]
    /\ mout = NoOut
    /\ mtasks = <<>>
    /\ wbuf = [w \in Workers |-> NoResult]
    /\ wlog = [w \in Workers |-> <<>>]

\* the process of worker w has not ended
Alive(w) == wpc[w] \notin {"exited", "killed", "crashed"}

\* A worker runs until SIGTERM is delivered to it.  The signal is posted by
\* terminate() and delivered later: the system call the worker is in when the
\* signal is posted completes first.
CanStep(w) == Alive(w) /\ sig[w] # "spent"
SigAfterStep(w) == [sig EXCEPT ![w] = IF @ = "pending" THEN "spent" ELSE @]

\* subpool.dump_run() of worker w when now() returns t (pools.py 299-311);
\* basename is the name of the process, so the file is named (w, t)
SubDumpRun(sub, w, t) ==
    IF sub.size > 0 THEN
        IF ~mdir THEN [sub |-> sub, files |-> mfiles, err |-> "IOError"]
        ELSE [sub |-> [postings |-> <<>>, size |-> 0, count |-> 0,
                       runs |-> Append(sub.runs, <<<<w, t>>, sub.count>>)],
              files |-> [n \in (DOMAIN mfiles) \cup {<<w, t>>} |->
                            IF n = <<w, t>> THEN SortPosts(sub.postings)
                            ELSE mfiles[n]],
              err |-> "none"]
    ELSE [sub |-> sub, files |-> mfiles, err |-> "none"]

\* the rest of subpool.add_posting once the spill is over (pools.py 279-283)
SubAppend(sub, p) ==
    [sub EXCEPT !.postings = Append(@, p),
                !.size = @ + PostingSize(p[2], p[5]),
                !.count = @ + 1]

\* MultiPool.add_posting(*args): self.postingqueue.put((1, args))
MAddPosting ==
    /\ mpc = "open"
    /\ Len(mtasks) < MaxTasks
    /\ \E tx \in Terms :
        LET p == <<0, tx, Len(mtasks), 1, NoData>> IN
        /\ pqueue' = Append(pqueue, PostTask(p))
        /\ mtasks' = Append(mtasks, p)
    /\ UNCHANGED <<rqueue, wpc, wsub, wcur, sig, mpc, mi, mdir, mfiles, mlens,
                   mclock, mruns, mout, wbuf, wlog>>
    /\ UNCHANGED notMulti

\* Queue.get() on a queue that is not empty: the oldest item leaves it
QueueGet_newest(q) == [item |-> q[Len(q)], rest |-> SubSeq(q, 1, Len(q) - 1)]

QueueGet(q) == [item |-> Head(q), rest |-> Tail(q)]

\* PoolWritingTask.run: pqueue.get() and the branch on the code; a posting
\* that finds the sub-pool over its limit waits for the spill
WGet(w) ==
    /\ wpc[w] = "loop"
    /\ CanStep(w)
    /\ pqueue # <<>>
    /\ pqueue' = QueueGet(pqueue).rest
    /\ sig' = SigAfterStep(w)
    /\ LET task == QueueGet(pqueue).item IN
        IF task = StopTask
          THEN /\ wpc' = [wpc EXCEPT ![w] = "lengths"]
               /\ wlog' = [wlog EXCEPT ![w] = Append(@, task)]
               /\ UNCHANGED <<wsub, wcur>>
        ELSE IF wsub[w].size >= Limit
          THEN /\ wpc' = [wpc EXCEPT ![w] = "spill"]
               /\ wcur' = [wcur EXCEPT ![w] = task[2]]
               /\ UNCHANGED <<wsub, wlog>>
        ELSE /\ wsub' = [wsub EXCEPT ![w] = SubAppend(@, task[2])]
             /\ wlog' = [wlog EXCEPT ![w] = Append(@, task)]
             /\ UNCHANGED <<wpc, wcur>>
    /\ UNCHANGED <<rqueue, mpc, mi, mdir, mfiles, mlens, mclock, mruns, mout,
                   mtasks, wbuf>>
    /\ UNCHANGED notMulti

\* the dump_run() of subpool.add_posting, then the append (pools.py 277-283)
WSpill(w) ==
    /\ wpc[w] = "spill"
    /\ CanStep(w)
    /\ sig' = SigAfterStep(w)
    /\ \E t \in mclock .. MaxClock :
        LET s == SubDumpRun(wsub[w], w, t) IN
        /\ mclock' = t
        /\ IF s.err = "none"
             THEN /\ mfiles' = s.files
                  /\ wsub' = [wsub EXCEPT ![w] = SubAppend(s.sub, wcur[w])]
                  /\ wlog' = [wlog EXCEPT ![w] = Append(@, PostTask(wcur[w]))]
                  /\ wcur' = [wcur EXCEPT ![w] = NoPost]
                  /\ wpc' = [wpc EXCEPT ![w] = "loop"]
             ELSE /\ wpc' = [wpc EXCEPT ![w] = "crashed"]
                  /\ UNCHANGED <<mfiles, wsub, wcur, wlog>>
    /\ UNCHANGED <<pqueue, rqueue, mpc, mi, mdir, mlens, mruns, mout, mtasks, wbuf>>
    /\ UNCHANGED notMulti

\* after the Stop: open(lenfilename, "wb") and _write_lengths_to
WLengths(w) ==
    /\ wpc[w] = "lengths"
    /\ CanStep(w)
    /\ sig' = SigAfterStep(w)
    /\ IF mdir
         THEN /\ mlens' = mlens \cup {w}
              /\ wpc' = [wpc EXCEPT ![w] = "dump"]
         ELSE /\ wpc' = [wpc EXCEPT ![w] = "crashed"]
              /\ UNCHANGED mlens
    /\ UNCHANGED <<pqueue, rqueue, wsub, wcur, mpc, mi, mdir, mfiles, mclock,
                   mruns, mout, mtasks, wbuf, wlog>>
    /\ UNCHANGED notMulti

\* after the Stop: subpool.dump_run()
WDump(w) ==
    /\ wpc[w] = "dump"
    /\ CanStep(w)
    /\ sig' = SigAfterStep(w)
    /\ \E t \in mclock .. MaxClock :
        LET s == SubDumpRun(wsub[w], w, t) IN
        /\ wsub[w].size = 0 => t = mclock
        /\ mclock' = t
        /\ IF s.err = "none"
             THEN /\ mfiles' = s.files
                  /\ wsub' = [wsub EXCEPT ![w] = s.sub]
                  /\ wpc' = [wpc EXCEPT ![w] = "put"]
             ELSE /\ wpc' = [wpc EXCEPT ![w] = "crashed"]
                  /\ UNCHANGED <<mfiles, wsub>>
    /\ UNCHANGED <<pqueue, rqueue, wcur, mpc, mi, mdir, mlens, mruns, mout,
                   mtasks, wbuf, wlog>>
    /\ UNCHANGED notMulti

\* the size of a result tuple in the pipe of the result queue: the fixed
\* part and one unit per (path, count) entry of its runs
ResultSize(res) == 1 + Len(res.runs)

RECURSIVE PipeUsed(_)
PipeUsed(q) == IF q = <<>> THEN 0 ELSE ResultSize(Head(q)) + PipeUsed(Tail(q))

\* after the Stop: rqueue.put(...), which hands the tuple to the feeder
\* thread of the queue, and the end of run()
WPut(w) ==
    /\ wpc[w] = "put"
    /\ CanStep(w)
    /\ sig' = SigAfterStep(w)
    /\ wbuf' = [wbuf EXCEPT ![w] = Result(wsub[w].runs, w)]
    /\ wpc' = [wpc EXCEPT ![w] = "flush"]
    /\ UNCHANGED <<pqueue, rqueue, wsub, wcur, mpc, mi, mdir, mfiles, mlens,
                   mclock, mruns, mout, mtasks, wlog>>
    /\ UNCHANGED notMulti

\* the exit of the process: it waits for the feeder thread, which writes
\* the tuple to the pipe of the queue once the pipe has room for it
WFlush(w) ==
    /\ wpc[w] = "flush"
    /\ CanStep(w)
    /\ PipeUsed(rqueue) + ResultSize(wbuf[w]) <= PipeCapacity
    /\ sig' = SigAfterStep(w)
    /\ rqueue' = Append(rqueue, wbuf[w])
    /\ wbuf' = [wbuf EXCEPT ![w] = NoResult]
    /\ wpc' = [wpc EXCEPT ![w] = "exited"]
    /\ UNCHANGED <<pqueue, wsub, wcur, mpc, mi, mdir, mfiles, mlens, mclock,
                   mruns, mout, mtasks, wlog>>
    /\ UNCHANGED notMulti

\* the delivery of SIGTERM: the process ends where it is
WDie(w) ==
    /\ sig[w] # "none"
    /\ Alive(w)
    /\ wpc' = [wpc EXCEPT ![w] = "killed"]
    /\ UNCHANGED <<pqueue, rqueue, wsub, wcur, sig, mpc, mi, mdir, mfiles,
                   mlens, mclock, mruns, mout, mtasks, wbuf, wlog>>
    /\ UNCHANGED notMulti

\* MultiPool.finish up to the first join: one Stop per worker (pools.py 444-453)
MFinishBegin ==
    /\ mpc = "open"
    /\ pqueue' = pqueue \o [i \in 1 .. NumProcs |-> StopTask]
    /\ mpc' = "joining"
    /\ mi' = 1
    /\ UNCHANGED <<rqueue, wpc, wsub, wcur, sig, mdir, mfiles, mlens, mclock,
                   mruns, mout, mtasks, wbuf, wlog>>
    /\ UNCHANGED notMulti

\* MultiPool.finish: task.join() returns for the task at index mi
MJoin ==
    /\ mpc = "joining"
    /\ ~Alive(mi)
    /\ IF mi = NumProcs
         THEN mpc' = "getting" /\ mi' = 1
         ELSE mi' = mi + 1 /\ UNCHANGED mpc
    /\ UNCHANGED <<pqueue, rqueue, wpc, wsub, wcur, sig, mdir, mfiles, mlens,
                   mclock, mruns, mout, mtasks, wbuf, wlog>>
    /\ UNCHANGED notMulti

\* MultiPool.finish: one rqueue.get(); after the last one the lengths files
\* are read, the runs are merged and written and cleanup() is called
\* (pools.py 458-498)
MGet ==
    /\ mpc = "getting"
    /\ rqueue # <<>>
    /\ rqueue' = Tail(rqueue)
    /\ LET res == Head(rqueue)
           got == [runs |-> mruns.runs \o res.runs,
                   lens |-> Append(mruns.lens, res.lenfile)]
           st == write_postings(dividemerge(
                     [i \in 1 .. Len(got.runs) |-> read_run(mfiles, got.runs[i])]))
       IN  /\ mruns' = got
           /\ IF mi < NumProcs
                THEN /\ mi' = mi + 1
                     /\ UNCHANGED <<mpc, mout, mdir, mfiles, mlens>>
              ELSE IF \E i \in 1 .. Len(got.lens) : got.lens[i] \notin mlens
                THEN /\ mpc' = "finish_failed"
                     /\ mout' = [log |-> <<>>, err |-> "IOError"]
                     /\ UNCHANGED <<mi, mdir, mfiles, mlens>>
              ELSE /\ mout' = [log |-> st.log, err |-> st.err]
                   /\ IF st.err = "none"
                        THEN /\ mpc' = "finished"
                             /\ mdir' = FALSE
                             /\ mfiles' = <<>>
                             /\ mlens' = {}
                        ELSE /\ mpc' = "finish_failed"
                             /\ UNCHANGED <<mdir, mfiles, mlens>>
                   /\ UNCHANGED mi
    /\ UNCHANGED <<pqueue, wpc, wsub, wcur, sig, mclock, mtasks, wbuf, wlog>>
    /\ UNCHANGED notMulti

\* MultiPool.cancel: task.terminate() for the task at index mi (pools.py
\* 437-438); terminate() posts SIGTERM and does not wait for the process
MCancelTerminate ==
    /\ mpc \in {"open", "terminating"}
    /\ sig' = [sig EXCEPT ![mi] = IF Alive(mi) /\ @ = "none" THEN "pending" ELSE @]
    /\ IF mi = NumProcs
         THEN mpc' = "rmtree" /\ mi' = 1
         ELSE mpc' = "terminating" /\ mi' = mi + 1
    /\ UNCHANGED <<pqueue, rqueue, wpc, wsub, wcur, mdir, mfiles, mlens,
                   mclock, mruns, mout, mtasks, wbuf, wlog>>
    /\ UNCHANGED notMulti

\* MultiPool.cancel: cleanup(), shutil.rmtree(self._dir), first part: the
\* directory is listed and every entry is removed
MCancelUnlink ==
    /\ mpc = "rmtree"
    /\ IF mdir
         THEN /\ mfiles' = <<>>
              /\ mlens' = {}
              /\ mpc' = "rmdir"
              /\ UNCHANGED mout
         ELSE /\ mpc' = "cancel_failed"
              /\ mout' = [mout EXCEPT !.err = "OSError"]
              /\ UNCHANGED <<mfiles, mlens>>
    /\ UNCHANGED <<pqueue, rqueue, wpc, wsub, wcur, sig, mi, mdir, mclock,
                   mruns, mtasks, wbuf, wlog>>
    /\ UNCHANGED notMulti

\* shutil.rmtree, second part: os.rmdir, which fails on a directory that is
\* not empty
MCancelRmdir ==
    /\ mpc = "rmdir"
    /\ IF DOMAIN mfiles = {} /\ mlens = {}
         THEN /\ mdir' = FALSE
              /\ mpc' = "cancelled"
              /\ UNCHANGED mout
         ELSE /\ mpc' = "cancel_failed"
              /\ mout' = [mout EXCEPT !.err = "OSError"]
              /\ UNCHANGED mdir
    /\ UNCHANGED <<pqueue, rqueue, wpc, wsub, wcur, sig, mi, mfiles, mlens,
                   mclock, mruns, mtasks, wbuf, wlog>>
    /\ UNCHANGED notMulti

----------------------------------------------------------------------------
(* The vector codec and the vector readers (basic.py 235-252, 347-366,
   815-859; postings.py 175-209) *)

TERMBYTES == 2
VectorHeaderSize == 19      \* struct.Struct("<Bi2ciii").size
NoneValue == -1             \* Python's None as the result of a call

\* the format of a vector that stores terms only
TermsOnly ==
    [has_lengths |-> FALSE, has_weights |-> FALSE, has_positions |-> FALSE,
     has_ranges |-> FALSE, has_payloads |-> FALSE]

\* BasicIO.encode_terms(terms): (typecode, bytes)
encode_terms(terms) ==
    LET lens == min_array([i \in 1 .. Len(terms) |-> Len(terms[i])])
        stored == IF ~IS_LITTLE THEN ByteSwap(lens) ELSE lens
    IN  [code |-> lens.code, bytes |-> ArrayToBytes(stored) \o Flatten(terms)]

\* the loop of decode_terms over the lengths lens[i ..]
RECURSIVE DecodeTermsLoop(_, _, _, _, _)
DecodeTermsLoop(src, offset, lens, i, terms) ==
    IF i > Len(lens) THEN [end |-> offset, terms |-> terms]
    ELSE DecodeTermsLoop(src, offset + lens[i], lens, i + 1,
                         Append(terms, Slice(src, offset, offset + lens[i])))

\* BasicIO.decode_terms(src, offset, typecode, count): (end, terms)
decode_terms(src, offset, typecode, n) ==
    LET lens_size == ItemSize(typecode) * n
        lens == BytesToArray(typecode, Slice(src, offset, offset + lens_size))
    IN  DecodeTermsLoop(src, offset + lens_size, lens.items, 1, <<>>)

\* BasicIO.pack_vector_header
pack_vector_header(flags, n, terms_typecode, weights_typecode, poslen, rangeslen, paylen) ==
    <<flags>> \o ToLE(n, 4) \o <<Ord(terms_typecode), Ord(weights_typecode)>>
    \o ToLE(poslen, 4) \o ToLE(rangeslen, 4) \o ToLE(paylen, 4)

\* BasicIO.unpack_vector_header(src, offset)
unpack_vector_header(src, offset) ==
    LET h == Slice(src, offset, offset + VectorHeaderSize) IN
    [flags |-> h[1],
     count |-> FromLE(SubSeq(h, 2, 5)),
     ids_typecode |-> Chr(h[6]),
     weights_typecode |-> Chr(h[7]),
     poslen |-> FromLE(SubSeq(h, 8, 11)),
     rangeslen |-> FromLE(SubSeq(h, 12, 15)),
     paylen |-> FromLE(SubSeq(h, 16, 19)),
     h_end |-> offset + VectorHeaderSize]

\* BasicIO.vector_to_bytes(fmt, posts); the postings of the model carry no
\* positions, ranges or payloads, which condition_post leaves as they are
vector_to_bytes(fmt, posts) ==
    IF posts = <<>> THEN Failed("ValueError")
    ELSE LET flags == make_flags(fmt.has_lengths, fmt.has_weights,
                                 fmt.has_positions, fmt.has_ranges,
                                 fmt.has_payloads)
             t == encode_terms(Extract(posts, TERMBYTES))
             w == extract_weights(fmt, posts)
             f == extract_features(fmt, posts)
             header == pack_vector_header(flags, Len(posts), t.code, w.code,
                                          Len(f.pos), Len(f.rng), Len(f.pay))
         IN  Encoded(header \o t.bytes \o w.bytes \o f.pos \o f.rng \o f.pay)

\* BasicVectorReader.__init__(src, offset): the fields the term methods use
BasicVectorReader(src, offset) ==
    LET h == unpack_vector_header(src, offset)
        d == decode_terms(src, h.h_end, h.ids_typecode, h.count)
    IN  [count |-> h.count, terms |-> d.terms, flags |-> h.flags]

\* BasicVectorReader.termbytes(n)
termbytes(r, n) ==
    IF n < 0 \/ n >= r.count THEN Raise("IndexError") ELSE Ret(r.terms[n + 1])

\* bisect.bisect_left(a, x) between lo and hi
RECURSIVE bisect_left(_, _, _, _)
bisect_left(a, x, lo, hi) ==
    IF lo < hi
      THEN LET mid == (lo + hi) \div 2
           IN  IF TextLess(a[mid + 1], x) THEN bisect_left(a, x, mid + 1, hi)
               ELSE bisect_left(a, x, lo, mid)
    ELSE lo

\* BasicVectorReader.seek(termbytes)
BasicVectorReader_seek(r, tbytes) == bisect_left(r.terms, tbytes, 0, Len(r.terms))

\* BasicVectorReader.term_index(termbytes)
BasicVectorReader_term_index(r, tbytes) ==
    LET i == BasicVectorReader_seek(r, tbytes) IN
    IF i < r.count /\ r.terms[i + 1] = tbytes THEN Ret(i) ELSE Raise("KeyError")

\* VectorReader.seek(tbytes): the loop from index i on
RECURSIVE VectorReader_seek(_, _, _)
VectorReader_seek(r, tbytes, i) ==
    IF i >= r.count THEN r.count
    ELSE LET this == termbytes(r, i).val
         IN  IF ~TextLess(this, tbytes) THEN i
             ELSE VectorReader_seek(r, tbytes, i + 1)

\* VectorReader.term_index(tbytes): the loop from index i on; a loop that
\* runs to its end returns None
RECURSIVE VectorReader_term_index(_, _, _)
VectorReader_term_index(r, tbytes, i) ==
    IF i >= r.count THEN Ret(NoneValue)
    ELSE LET this == termbytes(r, i).val
         IN  IF this = tbytes THEN Ret(i)
             ELSE IF TextLess(tbytes, this) THEN Raise("KeyError")
             ELSE VectorReader_term_index(r, tbytes, i + 1)

\* the terms of the model: the byte strings over {1, 2} up to MaxTermLen
VecBytes == {1, 2}
VecTermSet == UNION {[1 .. n -> VecBytes] : n \in 0 .. MaxTermLen}
VecTermLists == UNION {[1 .. n -> VecTermSet] : n \in 1 .. MaxVecTerms}

\* a posting of a vector: no doc id, the term, length 1, weight 1, no features
VecPost(t) == <<0, t, 1, 1, <<>>, <<>>, <<>>>>

NoLookup == [gseek |-> 0, bseek |-> 0, gindex |-> Raise("none"),
             bindex |-> Raise("none")]

VecIdle ==
    /\ vterms = <<>>
    /\ vblk = Failed("none")
    /\ vrdr = [count |-> 0, terms |-> <<>>, flags |-> 0]
    /\ vq = <<>>
    /\ vres = NoLookup
    /\ vstage = "idle"

VecInit ==
    /\ vterms \in VecTermLists
    /\ vblk = Failed("none")
    /\ vrdr = [count |-> 0, terms |-> <<>>, flags |-> 0]
    /\ vq = <<>>
    /\ vres = NoLookup
    /\ vstage = "input"

\* a call of vector_to_bytes on the postings of vterms
VecEncode ==
    /\ vstage = "input"
    /\ vblk' = vector_to_bytes(TermsOnly, [i \in 1 .. Len(vterms) |-> VecPost(vterms[i])])
    /\ vstage' = "encoded"
    /\ UNCHANGED <<vterms, vrdr, vq, vres>>
    /\ UNCHANGED notVec

\* reader = BasicIO().vector_reader(src, offset)
VecOpen ==
    /\ vstage = "encoded"
    /\ vblk.err = "none"
    /\ \E off \in 0 .. MaxPad : vrdr' = BasicVectorReader(Buffer(off, vblk.bytes), off)
    /\ vstage' = "opened"
    /\ UNCHANGED <<vterms, vblk, vq, vres>>
    /\ UNCHANGED notVec

\* seek(t) and term_index(t) on the reader, by the methods of
\* BasicVectorReader and by the methods VectorReader gives every reader
VecLookup ==
    /\ vstage = "opened"
    /\ \E t \in VecTermSet :
        /\ vq' = t
        /\ vres' = [gseek |-> VectorReader_seek(vrdr, t, 0),
                    bseek |-> BasicVectorReader_seek(vrdr, t),
                    gindex |-> VectorReader_term_index(vrdr, t, 0),
                    bindex |-> BasicVectorReader_term_index(vrdr, t)]
    /\ vstage' = "looked"
    /\ UNCHANGED <<vterms, vblk, vrdr>>
    /\ UNCHANGED notVec

----------------------------------------------------------------------------
(* Schema (fields.py 865-1069) *)

\* names are strings, modelled as sequences of characters
SpellPrefix == <<"s", "p", "e", "l", "l", "_">>

\* the names handed to add, remove and the lookups
SchemaNames ==
    { <<>>, <<"a">>, <<"a", "b">>, <<"_", "a">>, <<"a", " ">>, <<"*">>,
      <<"a", "*">>, <<"a", "?">>, SpellPrefix \o <<"a">> }

\* the names looked up to see what the schema returns
ProbeNames ==
    SchemaNames \cup {SpellPrefix \o n : n \in SchemaNames}
                \cup {SpellPrefix \o <<"a", "b">>}

HasChar(name, c) == \E i \in 1 .. Len(name) : name[i] = c

\* re.compile(fnmatch.translate(pat)).match(name): * is any run of
\* characters, ? any one character, the whole name must match
RECURSIVE FnMatch(_, _)
FnMatch(pat, name) ==
    IF pat = <<>> THEN name = <<>>
    ELSE IF Head(pat) = "*"
      THEN FnMatch(Tail(pat), name)
           \/ (name # <<>> /\ FnMatch(pat, Tail(name)))
    ELSE IF Head(pat) = "?"
      THEN name # <<>> /\ FnMatch(Tail(pat), Tail(name))
    ELSE name # <<>> /\ Head(name) = Head(pat) /\ FnMatch(Tail(pat), Tail(name))

\* field objects: id tells them apart; a Text field with spelling and a
\* morphing analyzer has separate_spelling() true
NoField == [id |-> 0, kind |-> "none", spelling |-> FALSE]
TextField(id, spelling) == [id |-> id, kind |-> "Text", spelling |-> spelling]
SpellField(id) == [id |-> id, kind |-> "SpellField", spelling |-> FALSE]

\* Text.spelling_fieldname(fieldname) when separate_spelling()
spelling_fieldname(fieldname) == SpellPrefix \o fieldname

\* field.subfields(name): the (subname, subfield) pairs
subfields(field, name) ==
    IF field.kind = "Text" /\ field.spelling
      THEN << <<spelling_fieldname(name), SpellField(field.id)>> >>
    ELSE <<>>

MapPut(f, k, v) == [x \in (DOMAIN f) \cup {k} |-> IF x = k THEN v ELSE f[x]]
MapDel(f, k) == [x \in (DOMAIN f) \ {k} |-> f[x]]

\* name in self._dyn_fields
DynHas(dyn, name) == \E i \in 1 .. Len(dyn) : dyn[i].name = name

\* del self._dyn_fields[name]
DynDel(dyn, name) == SelectSeq(dyn, LAMBDA e : e.name # name)

EmptySchema == [fields |-> <<>>, dyn |-> <<>>, sub |-> <<>>]

\* Schema.add(name, field, glob) on the schema sch: the schema it leaves and
\* the exception it raises; the sub-fields are added by the loop AddSubfields
RECURSIVE Schema_add(_, _, _, _)
RECURSIVE AddSubfields(_, _, _, _)
Schema_add(sch, name, field, glob) ==
    LET isglob == glob \/ HasChar(name, "?") \/ HasChar(name, "*") IN
    IF name # <<>> /\ Head(name) = "_"
      THEN [sch |-> sch, err |-> "FieldConfigurationError"]
    ELSE IF HasChar(name, " ")
      THEN [sch |-> sch, err |-> "FieldConfigurationError"]
    ELSE IF name \in DOMAIN sch.fields \/ (isglob /\ DynHas(sch.dyn, name))
      THEN [sch |-> sch, err |-> "FieldConfigurationError"]
    ELSE LET s1 == IF isglob
                     THEN [sch EXCEPT !.dyn = Append(@, [name |-> name, field |-> field])]
                   ELSE [sch EXCEPT !.fields = MapPut(@, name, field)]
             s2 == [s1 EXCEPT !.sub = MapPut(@, name, <<>>)]
         IN  AddSubfields(s2, name, subfields(field, name), 1)

\* the loop of Schema.add over field.subfields(name), from pair i on
AddSubfields(sch, name, subs, i) ==
    IF i > Len(subs) THEN [sch |-> sch, err |-> "none"]
    ELSE LET s1 == [sch EXCEPT !.sub = MapPut(@, name, Append(@[name], subs[i][1]))]
             r == Schema_add(s1, subs[i][1], subs[i][2], FALSE)
         IN  IF r.err # "none" THEN r
             ELSE AddSubfields(r.sch, name, subs, i + 1)

\* the loop of Schema.remove over self._subfields[name]
RECURSIVE RemoveSubfields(_, _, _)
RemoveSubfields(flds, subnames, i) ==
    IF i > Len(subnames) THEN flds
    ELSE RemoveSubfields(IF subnames[i] \in DOMAIN flds
                           THEN MapDel(flds, subnames[i]) ELSE flds,
                         subnames, i + 1)

\* Schema.remove(name)
Schema_remove(sch, name) ==
    IF name \in DOMAIN sch.fields
      THEN LET f1 == MapDel(sch.fields, name) IN
           IF name \in DOMAIN sch.sub
             THEN [sch |-> [sch EXCEPT !.fields = RemoveSubfields(f1, sch.sub[name], 1),
                                       !.sub = MapDel(@, name)],
                   err |-> "none"]
           ELSE [sch |-> [sch EXCEPT !.fields = f1], err |-> "none"]
    ELSE IF DynHas(sch.dyn, name)
      THEN [sch |-> [sch EXCEPT !.dyn = DynDel(@, name)], err |-> "none"]
    ELSE [sch |-> sch, err |-> "KeyError"]

\* Schema.__getitem__(name): the static map, then the dynamic patterns in
\* insertion order, the first match wins
Schema_getitem(sch, name) ==
    IF name \in DOMAIN sch.fields THEN [err |-> "none", val |-> sch.fields[name]]
    ELSE IF \E i \in 1 .. Len(sch.dyn) : FnMatch(sch.dyn[i].name, name)
      THEN LET i == CHOOSE k \in 1 .. Len(sch.dyn) :
                        /\ FnMatch(sch.dyn[k].name, name)
                        /\ \A j \in 1 .. (k - 1) : ~FnMatch(sch.dyn[j].name, name)
           IN  [err |-> "none", val |-> sch.dyn[i].field]
    ELSE [err |-> "KeyError", val |-> NoField]

\* Schema.__contains__(fieldname)
Schema_contains(sch, fieldname) == Schema_getitem(sch, fieldname).err = "none"

\* the schema the variables hold
TheSchema == [fields |-> sfields, dyn |-> sdyn, sub |-> ssub]

NoCall == [n |-> 0, op |-> "none", name |-> <<>>, field |-> NoField,
           glob |-> FALSE, err |-> "none", before |-> EmptySchema,
           removed |-> {}]

\* Schema(): no fields
SchemaInit ==
    /\ sfields = <<>>
    /\ sdyn = <<>>
    /\ ssub = <<>>
    /\ snext = 0
    /\ slast = NoCall
    /\ sunder = [n \in SchemaNames |-> {}]

SchemaIdle == SchemaInit

\* schema.add(name, field, glob) with a new field object
SchemaAdd ==
    /\ slast.n < MaxSchemaOps
    /\ \E name \in SchemaNames, glob \in BOOLEAN, spelling \in BOOLEAN :
        LET field == TextField(snext + 1, spelling)
            r == Schema_add(TheSchema, name, field, glob)
        IN  /\ sfields' = r.sch.fields
            /\ sdyn' = r.sch.dyn
            /\ ssub' = r.sch.sub
            /\ snext' = snext + 1
            /\ slast' = [n |-> slast.n + 1, op |-> "add", name |-> name,
                         field |-> field, glob |-> glob, err |-> r.err,
                         before |-> TheSchema, removed |-> {}]
            /\ sunder' = IF r.err = "none"
                           THEN [sunder EXCEPT ![name] =
                                   @ \cup {field}
                                     \cup {subfields(field, name)[i][2] :
                                             i \in 1 .. Len(subfields(field, name))}]
                         ELSE sunder
    /\ UNCHANGED notSchema

\* schema.remove(name)
SchemaRemove ==
    /\ slast.n < MaxSchemaOps
    /\ \E name \in SchemaNames :
        LET r == Schema_remove(TheSchema, name) IN
        /\ sfields' = r.sch.fields
        /\ sdyn' = r.sch.dyn
        /\ ssub' = r.sch.sub
        /\ slast' = [n |-> slast.n + 1, op |-> "remove", name |-> name,
                     field |-> NoField, glob |-> FALSE, err |-> r.err,
                     before |-> TheSchema,
                     removed |-> IF r.err = "none" THEN sunder[name] ELSE {}]
        /\ sunder' = IF r.err = "none" THEN [sunder EXCEPT ![name] = {}]
                     ELSE sunder
    /\ UNCHANGED snext
    /\ UNCHANGED notSchema

----------------------------------------------------------------------------
(* Numeric fields and NumericRange (fields.py 489-667, ranges.py 348-429) *)

\* the bits of the Numeric fields of the model, one of the sizes that
\* Numeric.__init__ accepts
NumericBits == 8

\* the shift_step values of the fields of the model
NumShiftSteps == {0, 2, 3, 4}

\* None, or a number
NoNumber == [some |-> FALSE, v |-> 0]
SomeNumber(x) == [some |-> TRUE, v |-> x]

\* a Numeric field of numtype int
Numeric(bits, signed, shift_step) == [bits |-> bits, signed |-> signed, shift_step |-> shift_step]

\* whoosh.util.numeric.to_sortable for integers: flip the sign bit of a
\* signed value
to_sortable(bits, signed, x) == IF signed THEN x + 2 ^ (bits - 1) ELSE x

\* whoosh.util.numeric.from_sortable, the inverse
from_sortable(bits, signed, x) == IF signed THEN x - 2 ^ (bits - 1) ELSE x

\* Numeric._min_max
min_value(field) == from_sortable(field.bits, field.signed, 0)
max_value(field) == from_sortable(field.bits, field.signed, 2 ^ field.bits - 1)

\* Numeric.prepare_number on an integer
prepare_number(field, x) ==
    IF x < min_value(field) \/ x > max_value(field)
    THEN [err |-> "ValueError", val |-> 0]
    ELSE Ret(x)

\* struct.pack(">B" / ">H" / ...) of one unsigned integer of the given bits
StructPack(bits, x) ==
    IF x < 0 \/ x >= 2 ^ bits
    THEN [err |-> "struct.error", val |-> <<>>]
    ELSE Ret(Reverse(ToLE(x, bits \div 8)))

\* Numeric.sortable_to_bytes: the shift byte, then x >> shift, big-endian
sortable_to_bytes(field, x, shift) ==
    LET y == IF shift # 0 THEN x \div (2 ^ shift) ELSE x
        packed == StructPack(field.bits, y)
    IN  IF packed.err # "none" THEN packed ELSE Ret(<<shift>> \o packed.val)

\* Numeric.to_bytes on a number
to_bytes(field, x, shift) ==
    LET p == prepare_number(field, x)
    IN  IF p.err # "none" THEN [err |-> p.err, val |-> <<>>]
        ELSE sortable_to_bytes(field, to_sortable(field.bits, field.signed, p.val), shift)

\* range(0, bits, shift_step) as a sequence
TierShifts(field) ==
    [i \in 1 .. ((field.bits + field.shift_step - 1) \div field.shift_step) |->
        (i - 1) * field.shift_step]

\* Numeric.index on one number: the term bytes of the postings it returns
Numeric_index(field, num) ==
    IF field.shift_step # 0
    THEN [i \in 1 .. Len(TierShifts(field)) |-> to_bytes(field, num, TierShifts(field)[i]).val]
    ELSE <<to_bytes(field, num, 0).val>>

\* whoosh.util.numeric.split_ranges: (sub_lo, sub_hi, shift) triples whose
\* shifted prefixes cover [lo, hi] as a disjoint union, the edges at the fine
\* tiers and the interior at the coarsest tier that does not overshoot
RECURSIVE SplitLoop(_, _, _, _, _)
SplitLoop(bits, step, lo, hi, shift) ==
    IF lo > hi THEN <<>>
    ELSE LET blk == 2 ^ (shift + step)
             nlo == ((lo + blk - 1) \div blk) * blk
             nhi == ((hi + 1) \div blk) * blk - 1
         IN  IF shift + step >= bits \/ nlo > nhi
             THEN <<<<lo, hi, shift>>>>
             ELSE (IF lo < nlo THEN <<<<lo, nlo - 1, shift>>>> ELSE <<>>)
                  \o (IF nhi < hi THEN <<<<nhi + 1, hi, shift>>>> ELSE <<>>)
                  \o SplitLoop(bits, step, nlo, nhi, shift + step)

split_ranges(intsize, step, start, end) == SplitLoop(intsize, step, start, end, 0)

\* NumericRange(fieldname, start, end, startexcl, endexcl)
NumericRange(start, end, startexcl, endexcl) == [start |-> start, end |-> end, startexcl |-> startexcl, endexcl |-> endexcl, constantscore |-> TRUE]

\* the start and end that simplify hands to split_ranges (ranges.py 384-400)
\* SimplifyStart without the + 1 of an exclusive start
SimplifyStart_noexcl(field, q) ==
    IF ~q.start.some THEN Ret(0)
    ELSE LET p == prepare_number(field, q.start.v)
         IN  IF p.err # "none" THEN p
             ELSE Ret(to_sortable(field.bits, field.signed, p.val))

SimplifyStart(field, q) ==
    IF ~q.start.some THEN Ret(0)
    ELSE LET p == prepare_number(field, q.start.v)
         IN  IF p.err # "none" THEN p
             ELSE Ret(to_sortable(field.bits, field.signed, p.val)
                      + (IF q.startexcl THEN 1 ELSE 0))

SimplifyEnd(field, q) ==
    IF ~q.end.some THEN Ret(2 ^ field.bits - 1)
    ELSE LET p == prepare_number(field, q.end.v)
         IN  IF p.err # "none" THEN p
             ELSE Ret(to_sortable(field.bits, field.signed, p.val)
                      - (IF q.endexcl THEN 1 ELSE 0))

\* a Term or TermRange sub-query; a Term has start = end = its text
SubQuery(kind, startbytes, endbytes) == [kind |-> kind, start |-> startbytes, end |-> endbytes]

\* the loop body of simplify (ranges.py 411-418) for one triple
SimplifySub(field, r) ==
    LET sb == sortable_to_bytes(field, r[1], r[3])
        eb == sortable_to_bytes(field, r[2], r[3])
    IN  IF r[1] = r[2]
        THEN [err |-> sb.err, val |-> SubQuery("Term", sb.val, sb.val)]
        ELSE IF sb.err # "none" THEN [err |-> sb.err, val |-> SubQuery("TermRange", <<>>, <<>>)]
        ELSE [err |-> eb.err, val |-> SubQuery("TermRange", sb.val, eb.val)]

\* what simplify returns: an error, or a query of some kind over sub-queries
QueryResult(e, kind, subs, wrapped) == [err |-> e, kind |-> kind, subs |-> subs, wrapped |-> wrapped]
NoQuery == QueryResult("none", "none", <<>>, FALSE)

\* NumericRange.simplify
NumericRange_simplify(field, q) ==
    LET s == SimplifyStart(field, q)
        e == SimplifyEnd(field, q)
    IN  IF s.err # "none" THEN QueryResult(s.err, "none", <<>>, FALSE)
        ELSE IF e.err # "none" THEN QueryResult(e.err, "none", <<>>, FALSE)
        ELSE LET ranges == IF field.shift_step # 0
                           THEN split_ranges(field.bits, field.shift_step, s.val, e.val)
                           ELSE <<<<s.val, e.val, 0>>>>
                 subs == [i \in 1 .. Len(ranges) |-> SimplifySub(field, ranges[i])]
                 bad == {i \in 1 .. Len(subs) : subs[i].err # "none"}
                 qs == [i \in 1 .. Len(subs) |-> subs[i].val]
             IN  IF bad # {}
                 THEN QueryResult(subs[CHOOSE i \in bad : \A j \in bad : i <= j].err, "none", <<>>, FALSE)
                 ELSE IF Len(qs) = 1 THEN QueryResult("none", qs[1].kind, qs, q.constantscore)
                 ELSE IF Len(qs) > 0 THEN QueryResult("none", "Or", qs, q.constantscore)
                 ELSE QueryResult("none", "NullQuery", <<>>, FALSE)

\* a <= b for two byte strings
BytesLeq(a, b) == a = b \/ TextLess(a, b)

\* whether a Term or TermRange sub-query matches an indexed term: Term by
\* equality, TermRange by TermRange._btexts with both ends inclusive
SubQueryMatches(sub, tb) ==
    IF sub.kind = "Term" THEN tb = sub.start
    ELSE BytesLeq(sub.start, tb) /\ BytesLeq(tb, sub.end)

\* the sortable numbers the range ends of the model are drawn from
NumSamples == {0, 1, 6, 37, 100, 254, 2 ^ NumericBits - 1}

NumericFields == {Numeric(NumericBits, sg, st) : sg \in BOOLEAN, st \in NumShiftSteps}

NumEnds(field) == {NoNumber} \cup {SomeNumber(from_sortable(field.bits, field.signed, x)) : x \in NumSamples}

NumIdle ==
    /\ nfield = Numeric(NumericBits, FALSE, 0)
    /\ nrange = NumericRange(NoNumber, NoNumber, FALSE, FALSE)
    /\ nq = NoQuery
    /\ nv = 0
    /\ nterms = <<>>
    /\ nstage = "idle"

NumInit ==
    /\ nfield \in NumericFields
    /\ \E s \in NumEnds(nfield), e \in NumEnds(nfield), sx \in BOOLEAN, ex \in BOOLEAN :
          nrange = NumericRange(s, e, sx, ex)
    /\ nq = NoQuery
    /\ nv = 0
    /\ nterms = <<>>
    /\ nstage = "init"

\* q.simplify(reader)
NumSimplify ==
    /\ nstage = "init"
    /\ nq' = NumericRange_simplify(nfield, nrange)
    /\ nstage' = "simplified"
    /\ UNCHANGED <<nfield, nrange, nv, nterms>>
    /\ UNCHANGED notNum

\* field.index(v) for a value of the field's range
NumIndex ==
    /\ nstage = "simplified"
    /\ \E v \in min_value(nfield) .. max_value(nfield) :
          /\ nv' = v
          /\ nterms' = Numeric_index(nfield, v)
    /\ nstage' = "indexed"
    /\ UNCHANGED <<nfield, nrange, nq>>
    /\ UNCHANGED notNum

----------------------------------------------------------------------------

(* Range.normalize and Range.merge (ranges.py 45-208, 281-299) *)

\* the classes of range query
RangeClasses == {"TermRange", "NumericRange", "DateRange"}

\* the strings '' and u'\uffff' that normalize tests for
EmptyText == <<>>
MaxText == <<65535>>

\* the texts, numbers and datetimes (second, microsecond) of the model
RqTexts == {EmptyText, <<97>>, MaxText}
RqNumbers == {0, 1, 2}
RqDates == {<<0, 0>>, <<0, 1>>, <<1, 0>>}

\* whoosh.util.times.datetime_to_long: the microseconds of a datetime
datetime_to_long(dt) == dt[1] * 1000000 + dt[2]

\* None and a value as the start or end of a range of class cls
RqNone(cls) == [some |-> FALSE, v |-> IF cls = "TermRange" THEN EmptyText ELSE 0]
RqSome(x) == [some |-> TRUE, v |-> x]

\* Range.__init__
Range(cls, start, end, startexcl, endexcl) == [cls |-> cls, start |-> start, end |-> end, startexcl |-> startexcl, endexcl |-> endexcl]

\* DateRange.__init__: datetimes become numbers
DateRange(start, end, startexcl, endexcl) ==
    Range("DateRange",
          IF start.some THEN RqSome(datetime_to_long(start.v)) ELSE RqNone("DateRange"),
          IF end.some THEN RqSome(datetime_to_long(end.v)) ELSE RqNone("DateRange"),
          startexcl, endexcl)

\* Python's == on two starts or ends
OptEq(a, b) == a.some = b.some /\ (a.some => a.v = b.v)

\* a < b on two values of a range of class cls
ValLess(cls, a, b) == IF cls = "TermRange" THEN TextLess(a, b) ELSE a < b

\* self.start in ('', None)
StartIsOpen(q) == ~q.start.some \/ (q.cls = "TermRange" /\ q.start.v = EmptyText)

\* self.end in (u'\uffff', None)
EndIsOpen(q) == ~q.end.some \/ (q.cls = "TermRange" /\ q.end.v = MaxText)

\* what normalize returns: a query of some kind; a Term holds its text in
\* q.start, a range is q itself
Normalized(kind, q) == [kind |-> kind, q |-> q]

\* Range.normalize, which NumericRange and DateRange inherit
Range_normalize(q) ==
    IF StartIsOpen(q) /\ EndIsOpen(q) THEN Normalized("Every", q)
    ELSE IF OptEq(q.start, q.end) /\ (q.startexcl \/ q.endexcl)
    THEN Normalized("NullQuery", q)
    ELSE Normalized(q.cls, q)

\* TermRange.normalize
TermRange_normalize(q) ==
    IF StartIsOpen(q) /\ EndIsOpen(q) THEN Normalized("Every", q)
    ELSE IF OptEq(q.start, q.end)
    THEN IF q.startexcl \/ q.endexcl THEN Normalized("NullQuery", q)
         ELSE Normalized("Term", q)
    ELSE Normalized("TermRange", q)

\* q.normalize() by the class of q
normalize(q) == IF q.cls = "TermRange" THEN TermRange_normalize(q) ELSE Range_normalize(q)

\* the first item of a comparable pair: Lowest, Highest or a value
LowestItem(cls) == [k |-> "Lowest", v |-> RqNone(cls).v]
HighestItem(cls) == [k |-> "Highest", v |-> RqNone(cls).v]
ValueItem(x) == [k |-> "value", v |-> x]

\* the comparison methods of the class Lowest
Lowest_eq(other) == other.k = "Lowest"
Lowest_lt(other) == other.k # "Lowest"
Lowest_gt(other) == ~(Lowest_lt(other) \/ Lowest_eq(other))
Lowest_le(other) == Lowest_eq(other) \/ Lowest_lt(other)
Lowest_ge(other) == Lowest_eq(other) \/ Lowest_gt(other)

\* the comparison methods of the class Highest
Highest_eq(other) == other.k = "Highest"
Highest_lt(other) == other.k = "Highest"
Highest_gt(other) == ~(Highest_lt(other) \/ Highest_eq(other))
Highest_le(other) == Highest_eq(other) \/ Highest_lt(other)
Highest_ge(other) == Highest_eq(other) \/ Highest_gt(other)

\* Python's a == b, a < b, a > b, a <= b, a >= b on two items: the method of
\* a when a is Lowest or Highest, else the reflected method of b
ItemEq(cls, a, b) ==
    IF a.k = "Lowest" THEN Lowest_eq(b)
    ELSE IF a.k = "Highest" THEN Highest_eq(b)
    ELSE IF b.k = "Lowest" THEN Lowest_eq(a)
    ELSE IF b.k = "Highest" THEN Highest_eq(a)
    ELSE a.v = b.v

ItemLt(cls, a, b) ==
    IF a.k = "Lowest" THEN Lowest_lt(b)
    ELSE IF a.k = "Highest" THEN Highest_lt(b)
    ELSE IF b.k = "Lowest" THEN Lowest_gt(a)
    ELSE IF b.k = "Highest" THEN Highest_gt(a)
    ELSE ValLess(cls, a.v, b.v)

ItemGt(cls, a, b) ==
    IF a.k = "Lowest" THEN Lowest_gt(b)
    ELSE IF a.k = "Highest" THEN Highest_gt(b)
    ELSE IF b.k = "Lowest" THEN Lowest_lt(a)
    ELSE IF b.k = "Highest" THEN Highest_lt(a)
    ELSE ValLess(cls, b.v, a.v)

ItemLe(cls, a, b) ==
    IF a.k = "Lowest" THEN Lowest_le(b)
    ELSE IF a.k = "Highest" THEN Highest_le(b)
    ELSE IF b.k = "Lowest" THEN Lowest_ge(a)
    ELSE IF b.k = "Highest" THEN Highest_ge(a)
    ELSE ~ValLess(cls, b.v, a.v)

ItemGe(cls, a, b) ==
    IF a.k = "Lowest" THEN Lowest_ge(b)
    ELSE IF a.k = "Highest" THEN Highest_ge(b)
    ELSE IF b.k = "Lowest" THEN Lowest_le(a)
    ELSE IF b.k = "Highest" THEN Highest_le(a)
    ELSE ~ValLess(cls, a.v, b.v)

\* Python's comparison of two (item, second) tuples: the first items that
\* differ decide
PairLt(cls, p, q) == IF ~ItemEq(cls, p[1], q[1]) THEN ItemLt(cls, p[1], q[1]) ELSE p[2] < q[2]
PairGt(cls, p, q) == IF ~ItemEq(cls, p[1], q[1]) THEN ItemGt(cls, p[1], q[1]) ELSE p[2] > q[2]
PairLe(cls, p, q) == IF ~ItemEq(cls, p[1], q[1]) THEN ItemLe(cls, p[1], q[1]) ELSE p[2] <= q[2]
PairGe(cls, p, q) == IF ~ItemEq(cls, p[1], q[1]) THEN ItemGe(cls, p[1], q[1]) ELSE p[2] >= q[2]

\* Python's max and min of two tuples: the first one unless the second is
\* greater (less)
PairMax(cls, p, q) == IF PairGt(cls, q, p) THEN q ELSE p
PairMin(cls, p, q) == IF PairLt(cls, q, p) THEN q ELSE p

\* Range._comparable_start and Range._comparable_end
comparable_start(q) ==
    IF ~q.start.some THEN <<LowestItem(q.cls), 0>>
    ELSE <<ValueItem(q.start.v), IF q.startexcl THEN 1 ELSE 0>>

\* comparable_end with the second item 0 for an exclusive end too
comparable_end_noexcl(q) ==
    IF ~q.end.some THEN <<HighestItem(q.cls), 0>>
    ELSE <<ValueItem(q.end.v), 0>>

comparable_end(q) ==
    IF ~q.end.some THEN <<HighestItem(q.cls), 0>>
    ELSE <<ValueItem(q.end.v), IF q.endexcl THEN -1 ELSE 0>>

\* Range.merge
Range_merge(q, other, intersect) ==
    LET c == q.cls
        start1 == comparable_start(q)
        start2 == comparable_start(other)
        end1 == comparable_end(q)
        end2 == comparable_end(other)
        se == IF PairGe(c, start1, start2) /\ PairLe(c, end1, end2)
              THEN <<start2, end2>>
              ELSE IF PairGe(c, start2, start1) /\ PairLe(c, end2, end1)
              THEN <<start1, end1>>
              ELSE IF intersect
              THEN <<PairMax(c, start1, start2), PairMin(c, end1, end2)>>
              ELSE <<PairMin(c, start1, start2), PairMax(c, end1, end2)>>
        start == se[1]
        end == se[2]
    IN  Range(c,
              IF start[1].k = "Lowest" THEN RqNone(c) ELSE RqSome(start[1].v),
              IF end[1].k = "Highest" THEN RqNone(c) ELSE RqSome(end[1].v),
              start[2] = 1,
              end[2] = -1)

\* the starts and ends a range of class cls is built with
RqEnds(cls) ==
    {[some |-> FALSE, v |-> IF cls = "TermRange" THEN EmptyText
                            ELSE IF cls = "NumericRange" THEN 0
                            ELSE <<0, 0>>]} \cup
    {RqSome(x) : x \in IF cls = "TermRange" THEN RqTexts
                       ELSE IF cls = "NumericRange" THEN RqNumbers
                       ELSE RqDates}

\* the range queries of class cls
RqRanges(cls) ==
    {IF cls = "DateRange" THEN DateRange(s, e, sx, ex) ELSE Range(cls, s, e, sx, ex) :
        s \in RqEnds(cls), e \in RqEnds(cls), sx \in BOOLEAN, ex \in BOOLEAN}

NoRqCall == [op |-> "none", intersect |-> FALSE, kind |-> "none", q |-> Range("TermRange", RqNone("TermRange"), RqNone("TermRange"), FALSE, FALSE)]

RqIdle ==
    /\ rqa = NoRqCall.q
    /\ rqb = NoRqCall.q
    /\ rqres = NoRqCall

RqInit ==
    /\ \E cls \in RangeClasses : rqa \in RqRanges(cls) /\ rqb \in RqRanges(cls)
    /\ rqres = NoRqCall

\* rqa.normalize()
RqNormalize ==
    /\ rqres.op = "none"
    /\ rqres' = [op |-> "normalize", intersect |-> FALSE,
                 kind |-> normalize(rqa).kind, q |-> normalize(rqa).q]
    /\ UNCHANGED <<rqa, rqb>>
    /\ UNCHANGED notRq

\* rqa.merge(rqb, intersect)
RqMerge ==
    /\ rqres.op = "none"
    /\ \E intersect \in BOOLEAN :
          rqres' = [op |-> "merge", intersect |-> intersect,
                    kind |-> rqa.cls, q |-> Range_merge(rqa, rqb, intersect)]
    /\ UNCHANGED <<rqa, rqb>>
    /\ UNCHANGED notRq

----------------------------------------------------------------------------

(* Search contexts (searching.py 64-125, 128-148, 340-362) *)

MaxLimit == 2       \* limit arguments 0 .. MaxLimit
MaxOffset == 1      \* offset arguments 0 .. MaxOffset

\* the weighting models of the model, and None
NoWeighting == "None"
WeightingModels == {"BM25F", "TF_IDF", "Frequency"}

\* the top_query arguments of the model
TopQueries == {"None", "q"}

\* setup_weighting: BM25F() when no weighting is given
setup_weighting(weighting) == IF weighting = NoWeighting THEN "BM25F" ELSE weighting

\* SearchContext.__init__
SearchContext(weighting, top_query, offset, limit) == [weighting |-> weighting, top_query |-> top_query, offset |-> offset, limit |-> limit]

\* SearchContext.boolean: cls(weighting=None), the rest by default
SearchContext_boolean == SearchContext(NoWeighting, "None", 0, 0)

\* SearchContext.to_boolean: self.set(weighting=None)
to_boolean(c) == [c EXCEPT !.weighting = NoWeighting]

\* SearchContext.scored
scored(c) == c.weighting # NoWeighting

\* SearcherType.context: weighting or self.weighting
Searcher_context(self_weighting, weighting, top_query, limit, offset) ==
    SearchContext(IF weighting # NoWeighting THEN weighting ELSE self_weighting,
                  top_query, offset, limit)

\* SearcherType.boolean_context: self.context(weighting=None)
boolean_context(self_weighting) == Searcher_context(self_weighting, NoWeighting, "None", 0, 0)

CtxIdle ==
    /\ sweighting = NoWeighting
    /\ ctx = SearchContext(NoWeighting, "None", 0, 0)
    /\ clast = "idle"

\* Searcher(reader, weighting), then searcher.context()
CtxInit ==
    /\ \E w \in WeightingModels \cup {NoWeighting} : sweighting = setup_weighting(w)
    /\ ctx = Searcher_context(sweighting, NoWeighting, "None", 0, 0)
    /\ clast = "context"

\* searcher.context(weighting, top_query, limit, offset)
CtxContext ==
    /\ \E w \in WeightingModels \cup {NoWeighting}, tq \in TopQueries,
          lim \in 0 .. MaxLimit, off \in 0 .. MaxOffset :
          ctx' = Searcher_context(sweighting, w, tq, lim, off)
    /\ clast' = "context"
    /\ UNCHANGED sweighting
    /\ UNCHANGED notCtx

\* SearchContext.boolean()
CtxBoolean ==
    /\ ctx' = SearchContext_boolean
    /\ clast' = "boolean"
    /\ UNCHANGED sweighting
    /\ UNCHANGED notCtx

\* ctx.to_boolean()
CtxToBoolean ==
    /\ ctx' = to_boolean(ctx)
    /\ clast' = "to_boolean"
    /\ UNCHANGED sweighting
    /\ UNCHANGED notCtx

\* searcher.boolean_context()
CtxBooleanContext ==
    /\ ctx' = boolean_context(sweighting)
    /\ clast' = "boolean_context"
    /\ UNCHANGED sweighting
    /\ UNCHANGED notCtx

----------------------------------------------------------------------------

(* write_postings, one posting at a time (pools.py 144-193) *)

MaxWpLen == 3       \* the longest posting iterator handed to write_postings

\* the postings an iterator may yield, in any order
WpPosts == {<<f, t, d, q, NoData>> : f \in {0, 1}, t \in {<<1>>, <<2>>}, d \in {0, 1}, q \in {1, 2}}

\* the posting iterators of up to MaxWpLen postings
WpStreams == UNION {[1 .. n -> WpPosts] : n \in 0 .. MaxWpLen}

WpIdle ==
    /\ wpin = <<>>
    /\ wpi = 0
    /\ wpst = WpInit

\* write_postings is called: the local variables before the loop
WpCall ==
    /\ wpin \in WpStreams
    /\ wpi = 1
    /\ wpst = WpInit

\* one iteration of the for loop over postiter
WpIterate ==
    /\ wpi >= 1
    /\ wpi <= Len(wpin)
    /\ wpst.err = "none"
    /\ wpst' = WpStep(wpst, wpin[wpi])
    /\ wpi' = wpi + 1
    /\ UNCHANGED wpin
    /\ UNCHANGED notWp

\* the iterator is exhausted: the postings still uncommitted are finished
WpReturn ==
    /\ wpi = Len(wpin) + 1
    /\ wpst.err = "none"
    /\ wpst' = IF ~wpst.first THEN WpFinishTerm(wpst) ELSE wpst
    /\ wpi' = wpi + 1
    /\ UNCHANGED wpin
    /\ UNCHANGED notWp

----------------------------------------------------------------------------

(* The two merges over the same runs (pools.py 69-133) *)

MaxMergeRuns == 3
MaxRunLen == 2

\* the postings of the runs: one term of one field in three documents
MergePosts == {<<0, <<1>>, d, 1, NoData>> : d \in 0 .. 2}

\* the sorted runs of 1 to MaxRunLen postings, as dump_run writes them
SortedRuns ==
    {SortPosts(s) : s \in UNION {[1 .. n -> MergePosts] : n \in 1 .. MaxRunLen}}

\* lists of up to MaxMergeRuns runs
RunLists == UNION {[1 .. n -> SortedRuns] : n \in 0 .. MaxMergeRuns}

\* the run files of a list of runs and the (name, count) pairs that name them
MergeFiles(rs) == [i \in 1 .. Len(rs) |-> rs[i]]
MergeRuns(rs) == [i \in 1 .. Len(rs) |-> <<i, Len(rs[i])>>]

NotMerged == [done |-> FALSE, items |-> <<>>, err |-> "none"]
Merged(r) == [done |-> TRUE, items |-> r.items, err |-> r.err]

MergeIdle ==
    /\ gruns = <<>>
    /\ gim = NotMerged
    /\ gdiv = NotMerged

MergeInit ==
    /\ gruns \in RunLists
    /\ gim = NotMerged
    /\ gdiv = NotMerged

\* list(imerge([read_run(name, count) for name, count in runs]))
MergeImerge ==
    /\ ~gim.done
    /\ gim' = Merged(imerge(MergeFiles(gruns), MergeRuns(gruns)))
    /\ UNCHANGED <<gruns, gdiv>>
    /\ UNCHANGED notMerge

\* list(dividemerge([read_run(name, count) for name, count in runs]))
MergeDividemerge ==
    /\ ~gdiv.done
    /\ gdiv' = Merged(dividemerge([i \in 1 .. Len(gruns) |->
                          read_run(MergeFiles(gruns), MergeRuns(gruns)[i])]))
    /\ UNCHANGED <<gruns, gim>>
    /\ UNCHANGED notMerge

----------------------------------------------------------------------------

(* Annotation and AnnotationList (fields.py 1072-1165) *)

MaxAnnos == 3       \* AnnotationList.add calls per behaviour
MaxAnnoPos == 2     \* starts and ends are 0 .. MaxAnnoPos

\* the annotation names: "a" and "b"
AnnoNames == {<<97>>, <<98>>}
AnnoPositions == 0 .. MaxAnnoPos

\* last <= tuple for two (start, end) tuples
TupleLeq(a, b) == a[1] < b[1] \/ (a[1] = b[1] /\ a[2] <= b[2])

\* sorted(names) for a set of names
RECURSIVE SortedNames(_)
SortedNames(names) ==
    IF names = {} THEN <<>>
    ELSE LET least == CHOOSE n \in names :
                         \A o \in names : o = n \/ TextLess(n, o)
         IN  <<least>> \o SortedNames(names \ {least})

\* AnnotationList.add(name, start, end): the list it leaves and the
\* exception it raises
AnnotationList_add(ranges, last, fieldlen, name, start, end) ==
    IF name \in DOMAIN last /\ ~TupleLeq(last[name], <<start, end>>)
      THEN [ranges |-> ranges, last |-> last, fieldlen |-> fieldlen,
            err |-> "ValueError"]
    ELSE [ranges |-> MapPut(ranges, name,
                        Append(IF name \in DOMAIN ranges THEN ranges[name]
                               ELSE <<>>, <<start, end>>)),
          last |-> MapPut(last, name, <<start, end>>),
          fieldlen |-> fieldlen + 1,
          err |-> "none"]

\* AnnotationList.indexed(docid): one posting per name, in name order; the
\* name is ASCII, so name.encode("utf8") has the same codes
AnnotationList_indexed(ranges, fieldlen, docid) ==
    LET names == SortedNames(DOMAIN ranges)
    IN  [i \in 1 .. Len(names) |->
            [docid |-> docid, termbytes |-> names[i], length |-> fieldlen,
             ranges |-> ranges[names[i]]]]

NoAnnoCall == [op |-> "none", err |-> "none"]

AnnoIdle ==
    /\ aranges = <<>>
    /\ alast = <<>>
    /\ afieldlen = 0
    /\ acall = NoAnnoCall
    /\ aposts = <<>>
    /\ aenc = <<>>

\* AnnotationList(None)
AnnoInit == AnnoIdle

\* annotations.add(name, start, end)
AnnoAdd ==
    /\ acall.op \in {"none", "add"}
    /\ afieldlen < MaxAnnos
    /\ \E name \in AnnoNames, start \in AnnoPositions, end \in AnnoPositions :
        LET r == AnnotationList_add(aranges, alast, afieldlen, name, start, end)
        IN  /\ aranges' = r.ranges
            /\ alast' = r.last
            /\ afieldlen' = r.fieldlen
            /\ acall' = [op |-> "add", err |-> r.err]
    /\ UNCHANGED <<aposts, aenc>>
    /\ UNCHANGED notAnno

\* Annotation.index(annotations, docid)
AnnoIndex ==
    /\ acall.op \in {"none", "add"}
    /\ aposts' = AnnotationList_indexed(aranges, afieldlen, 0)
    /\ acall' = [op |-> "index", err |-> "none"]
    /\ UNCHANGED <<aranges, alast, afieldlen, aenc>>
    /\ UNCHANGED notAnno

\* condition_post of every posting: encode_ranges(post[RANGES]) (basic.py 301-302)
AnnoEncode ==
    /\ acall.op = "index"
    /\ aenc' = [i \in 1 .. Len(aposts) |-> encode_ranges(aposts[i].ranges)]
    /\ acall' = [op |-> "encode",
                 err |-> IF \E i \in 1 .. Len(aposts) :
                               encode_ranges(aposts[i].ranges).err # "none"
                           THEN "ValueError" ELSE "none"]
    /\ UNCHANGED <<aranges, alast, afieldlen, aposts>>
    /\ UNCHANGED notAnno

----------------------------------------------------------------------------

(* The specifications *)

Init == PoolInit /\ DocIdle /\ RangeIdle /\ MultiIdle /\ VecIdle /\ SchemaIdle /\ NumIdle /\ RqIdle /\ CtxIdle /\ WpIdle /\ MergeIdle /\ AnnoIdle

Next ==
    \/ AddPosting
    \/ DumpRun
    \/ Finish
    \/ Cancel

Spec == Init /\ [][Next]_vars

InitDoc == PoolInit /\ DocInit /\ RangeIdle /\ MultiIdle /\ VecIdle /\ SchemaIdle /\ NumIdle /\ RqIdle /\ CtxIdle /\ WpIdle /\ MergeIdle /\ AnnoIdle

NextDoc ==
    \/ DocEncode
    \/ DocOpen
    \/ DocRewrite

SpecDoc == InitDoc /\ [][NextDoc]_vars

InitRange == PoolInit /\ DocIdle /\ RangeInit /\ MultiIdle /\ VecIdle /\ SchemaIdle /\ NumIdle /\ RqIdle /\ CtxIdle /\ WpIdle /\ MergeIdle /\ AnnoIdle

NextRange ==
    \/ RangeEncode
    \/ RangeDecode

SpecRange == InitRange /\ [][NextRange]_vars

InitMulti == PoolInit /\ DocIdle /\ RangeIdle /\ MultiInit /\ VecIdle /\ SchemaIdle /\ NumIdle /\ RqIdle /\ CtxIdle /\ WpIdle /\ MergeIdle /\ AnnoIdle

NextMulti ==
    \/ MAddPosting
    \/ MFinishBegin
    \/ MJoin
    \/ MGet
    \/ MCancelTerminate
    \/ MCancelUnlink
    \/ MCancelRmdir
    \/ \E w \in Workers : WGet(w)
    \/ \E w \in Workers : WSpill(w)
    \/ \E w \in Workers : WLengths(w)
    \/ \E w \in Workers : WDump(w)
    \/ \E w \in Workers : WPut(w)
    \/ \E w \in Workers : WFlush(w)
    \/ \E w \in Workers : WDie(w)

SpecMulti == InitMulti /\ [][NextMulti]_vars

InitVec == PoolInit /\ DocIdle /\ RangeIdle /\ MultiIdle /\ VecInit /\ SchemaIdle /\ NumIdle /\ RqIdle /\ CtxIdle /\ WpIdle /\ MergeIdle /\ AnnoIdle

NextVec ==
    \/ VecEncode
    \/ VecOpen
    \/ VecLookup

SpecVec == InitVec /\ [][NextVec]_vars

InitSchema == PoolInit /\ DocIdle /\ RangeIdle /\ MultiIdle /\ VecIdle /\ SchemaInit /\ NumIdle /\ RqIdle /\ CtxIdle /\ WpIdle /\ MergeIdle /\ AnnoIdle

NextSchema ==
    \/ SchemaAdd
    \/ SchemaRemove

SpecSchema == InitSchema /\ [][NextSchema]_vars

InitNum == PoolInit /\ DocIdle /\ RangeIdle /\ MultiIdle /\ VecIdle /\ SchemaIdle /\ NumInit /\ RqIdle /\ CtxIdle /\ WpIdle /\ MergeIdle /\ AnnoIdle

NextNum ==
    \/ NumSimplify
    \/ NumIndex

SpecNum == InitNum /\ [][NextNum]_vars

InitRq == PoolInit /\ DocIdle /\ RangeIdle /\ MultiIdle /\ VecIdle /\ SchemaIdle /\ NumIdle /\ RqInit /\ CtxIdle /\ WpIdle /\ MergeIdle /\ AnnoIdle

NextRq ==
    \/ RqNormalize
    \/ RqMerge

SpecRq == InitRq /\ [][NextRq]_vars

InitCtx == PoolInit /\ DocIdle /\ RangeIdle /\ MultiIdle /\ VecIdle /\ SchemaIdle /\ NumIdle /\ RqIdle /\ CtxInit /\ WpIdle /\ MergeIdle /\ AnnoIdle

NextCtx ==
    \/ CtxContext
    \/ CtxBoolean
    \/ CtxToBoolean
    \/ CtxBooleanContext

SpecCtx == InitCtx /\ [][NextCtx]_vars

InitWp == PoolInit /\ DocIdle /\ RangeIdle /\ MultiIdle /\ VecIdle /\ SchemaIdle /\ NumIdle /\ RqIdle /\ CtxIdle /\ WpCall /\ MergeIdle /\ AnnoIdle

NextWp ==
    \/ WpIterate
    \/ WpReturn

SpecWp == InitWp /\ [][NextWp]_vars

----------------------------------------------------------------------------
(* Properties of the TempfilePool *)

\* the elements of a finite set of integers in ascending order
RECURSIVE SortedSeqOf(_)
SortedSeqOf(S) ==
    IF S = {} THEN <<>>
    ELSE LET m == CHOOSE x \in S : \A y \in S : x <= y
         IN  <<m>> \o SortedSeqOf(S \ {m})

IsWriteOf(e, f, tx) == e.op = "write" /\ e.fieldnum = f /\ e.text = tx

\* the doc numbers handed to postwriter.write for (f, tx), in call order
RECURSIVE DocsWritten(_, _, _)
DocsWritten(log, f, tx) ==
    IF log = <<>> THEN <<>>
    ELSE (IF IsWriteOf(Head(log), f, tx) THEN <<Head(log).docnum>> ELSE <<>>)
         \o DocsWritten(Tail(log), f, tx)

\* the doc numbers add_posting accepted for (f, tx)
DocsAdded(f, tx) == {p[3] : p \in {q \in added : q[1] = f /\ q[2] = tx}}

\* the termtable.add calls of a log, in call order
RECURSIVE TableAdds(_)
TableAdds(log) ==
    IF log = <<>> THEN <<>>
    ELSE (IF Head(log).op = "add" THEN <<Head(log)>> ELSE <<>>)
         \o TableAdds(Tail(log))

KeyLess(f1, t1, f2, t2) == f1 < f2 \/ (f1 = f2 /\ TextLess(t1, t2))

StrictlyIncreasing(s) == \A i \in 1 .. (Len(s) - 1) : s[i] < s[i + 1]

\* C1: after finish, for every (field, term) the doc-ids written are the
\* sorted union of the doc-ids added for it: every added posting is written
\* exactly once, also when spills happened and postings were added after them.
C1_FinishWritesEveryPosting ==
    phase = "finished" =>
        \A f \in Fields, tx \in Terms :
            DocsWritten(out.log, f, tx) = SortedSeqOf(DocsAdded(f, tx))

\* C2: after finish, the postings of one (field, term) were written in
\* strictly increasing doc-id order, and the term table got its entries in
\* strictly increasing (field, term) order, one for each (field, term) that
\* has postings written.
C2_WriteOrder ==
    phase = "finished" =>
        LET adds == TableAdds(out.log) IN
        /\ \A f \in Fields, tx \in Terms :
              StrictlyIncreasing(DocsWritten(out.log, f, tx))
        /\ \A i \in 1 .. (Len(adds) - 1) :
              KeyLess(adds[i].fieldnum, adds[i].text,
                      adds[i + 1].fieldnum, adds[i + 1].text)
        /\ \A f \in Fields, tx \in Terms :
              (DocsWritten(out.log, f, tx) # <<>>) <=>
              (\E i \in 1 .. Len(adds) :
                  adds[i].fieldnum = f /\ adds[i].text = tx)

\* C3: when finish exits with the error write_postings raised, cleanup has
\* run: the temp directory and every run file in it are removed.
C3_CleanupOnError ==
    phase = "failed" => (~dirExists /\ DOMAIN files = {})

----------------------------------------------------------------------------
(* Properties of the doc-list codec *)

InIds == Extract(dposts, DOCID)
InLengths == Extract(dposts, LENGTH)

\* non-empty, non-negative and strictly increasing
WellOrdered(ids) ==
    /\ ids # <<>>
    /\ \A i \in 1 .. Len(ids) : ids[i] >= 0
    /\ StrictlyIncreasing(ids)

C7_RejectsUnordered ==
    (dstage = "encoded" /\ InIds # <<>> /\ ~StrictlyIncreasing(InIds))
        => dblk.err = "ValueError"

\* C8: when rewrite_raw_bytes of a BasicDocListReader returns a block, the
\* block decodes to the remapped ids and every byte outside the id array is
\* the byte of raw_bytes() at the same place, whatever offset the reader was
\* opened at.
C8_RewriteKeepsRest ==
    (dstage = "rewritten" /\ drdr.val.kind = "basic" /\ drw.err = "none") =>
        LET r == drdr.val
            raw == raw_bytes(r)
            idlen == ItemSize(r.ids_tc) * r.count
        IN  /\ Len(drw.bytes) = Len(raw)
            /\ \A i \in 1 .. Len(raw) :
                  (i <= DocHeaderSize \/ i > DocHeaderSize + idlen)
                      => drw.bytes[i] = raw[i]
            /\ all_ids(BasicDocListReader(drw.bytes, 0))
                  = [i \in 1 .. Len(r.ids) |-> r.ids[i] + dshift]

\* the index of the smallest of the typecodes u8, u16, u32 that holds m
TypeIndexFor(m) == IF m < 256 THEN 0 ELSE IF m < 65536 THEN 1 ELSE 2

\* b is the minimal encoding of ids: a flags byte with the high bit set, two
\* bits of typecode index and five bits of count - 1, then the raw ids
IsMinimalBlock(b, ids) ==
    /\ b[1] >= 128
    /\ LET tn == (b[1] \div 32) % 4
           cnt == (b[1] % 32) + 1
           width == 2 ^ tn
       IN  /\ tn = TypeIndexFor(MaxOf(ids))
           /\ cnt = Len(ids)
           /\ Len(b) = 1 + cnt * width
           /\ \A i \in 1 .. cnt :
                 FromLE(SubSeq(b, 2 + (i - 1) * width, 1 + i * width)) = ids[i]

\* b starts with the full header of a block of n postings of format fmt
IsFullHeader(b, fmt, n) ==
    /\ Len(b) >= DocHeaderSize
    /\ b[1] < 128
    /\ HasBit(b[1], HAS_LENGTHS) = fmt.has_lengths
    /\ HasBit(b[1], HAS_WEIGHTS) = fmt.has_weights
    /\ HasBit(b[1], HAS_POSITIONS) = fmt.has_positions
    /\ HasBit(b[1], HAS_RANGES) = fmt.has_ranges
    /\ HasBit(b[1], HAS_PAYLOADS) = fmt.has_payloads
    /\ b[2] + 256 * b[3] = n

C10_MinMaxLength ==
    (dstage = "opened" /\ drdr.err = "none") =>
        /\ min_length(drdr.val) = Ret(MinOf(InLengths))
        /\ max_length(drdr.val) = Ret(MaxOf(InLengths))

----------------------------------------------------------------------------
(* Properties of the range codec *)

\* each start is >= the previous end and each end is >= its start
WellFormedRanges(ranges) ==
    \A i \in 1 .. Len(ranges) :
        /\ ranges[i][2] >= ranges[i][1]
        /\ ranges[i][1] >= (IF i = 1 THEN 0 ELSE ranges[i - 1][2])

\* C6: for every well-formed list of ranges, encode_ranges succeeds and
\* decode_ranges applied to its bytes returns the list, whatever typecode
\* (B, H, I) the deltas need, on a little-endian host.
C6_RangesRoundTrip ==
    WellFormedRanges(rin) =>
        /\ rstage = "encoded" => rblk.err = "none"
        /\ rstage = "decoded" => rout = Ret(rin)

----------------------------------------------------------------------------
(* Properties of the MultiPool *)

\* C4: once MultiPool.cancel has returned or raised, every worker process
\* has ended or has its termination signal posted, and the temp directory
\* with every run file and lengths file in it is gone.
C4_CancelStopsAndRemoves ==
    mpc \in {"cancelled", "cancel_failed"} =>
        /\ \A w \in Workers : ~Alive(w) \/ sig[w] # "none"
        /\ ~mdir
        /\ DOMAIN mfiles = {}
        /\ mlens = {}

----------------------------------------------------------------------------
(* Properties of the vector readers *)

\* the terms are strictly increasing as byte strings
TermsIncreasing(terms) ==
    \A i \in 1 .. (Len(terms) - 1) : TextLess(terms[i], terms[i + 1])

\* C11: on a vector whose terms are strictly increasing, term_index(t) of
\* the generic VectorReader and of BasicVectorReader both return the index
\* of t when t is stored, both raise KeyError when it is not (smaller than,
\* between or greater than the stored terms), and both give the same result.
C11_TermIndexExact ==
    (vstage = "looked" /\ TermsIncreasing(vterms)) =>
        /\ vres.gindex = vres.bindex
        /\ \A i \in 1 .. Len(vterms) :
              vterms[i] = vq => vres.bindex = Ret(i - 1)
        /\ (\A i \in 1 .. Len(vterms) : vterms[i] # vq) =>
              (vres.bindex.err = "KeyError" /\ vres.gindex.err = "KeyError")

----------------------------------------------------------------------------
(* Properties of the Schema *)

\* C12: after every successful add(name, f), static or glob, whatever was
\* added before, `name in schema` is true and schema[name] is f.
C12_AddThenLookup ==
    (slast.op = "add" /\ slast.err = "none") =>
        /\ Schema_contains(TheSchema, slast.name)
        /\ Schema_getitem(TheSchema, slast.name).val = slast.field

\* C13: after a successful remove(name), no lookup returns a field that was
\* added under name, nor a sub-field that add generated for it.
C13_RemoveThenNoLookup ==
    (slast.op = "remove" /\ slast.err = "none") =>
        \A f \in slast.removed : \A n \in ProbeNames :
            Schema_getitem(TheSchema, n).val # f

\* a name the schema may hold
NameOk(name) == name # <<>> /\ Head(name) # "_" /\ ~HasChar(name, " ")

\* the names a schema holds, static and dynamic
HeldNames(sch) == (DOMAIN sch.fields) \cup {sch.dyn[i].name : i \in 1 .. Len(sch.dyn)}

\* C14: after any sequence of add and remove calls every name the schema
\* holds is non-empty, does not start with "_", contains no space and is
\* held once; an add whose name breaks one of these rules raises
\* FieldConfigurationError.
C14_NamesWellFormed ==
    /\ \A n \in HeldNames(TheSchema) : NameOk(n)
    /\ \A i \in 1 .. Len(sdyn) :
          /\ sdyn[i].name \notin DOMAIN sfields
          /\ \A j \in 1 .. Len(sdyn) : sdyn[j].name = sdyn[i].name => j = i
    /\ (slast.op = "add"
          /\ (~NameOk(slast.name) \/ slast.name \in HeldNames(slast.before)))
         => slast.err = "FieldConfigurationError"

----------------------------------------------------------------------------
(* Properties of NumericRange.simplify *)

\* whether the value v lies in the range of the query q, each end taken
\* inclusive or exclusive as its flag says
ValueInRange(q, v) ==
    /\ q.start.some => (IF q.startexcl THEN q.start.v < v ELSE q.start.v <= v)
    /\ q.end.some => (IF q.endexcl THEN v < q.end.v ELSE v <= q.end.v)

\* whether some Term or TermRange of the simplified query matches one of the
\* indexed terms
SomeTierMatch(q, terms) ==
    /\ q.err = "none"
    /\ \E i \in 1 .. Len(q.subs), j \in 1 .. Len(terms) :
          SubQueryMatches(q.subs[i], terms[j])

\* C15: for a Numeric field with a shift_step and every value v of its range
\* indexed by Numeric.index, v lies in [start, end] (after the
\* inclusive/exclusive adjustment) if and only if some Term or TermRange of
\* NumericRange.simplify matches one of the tier terms indexed for v.
C15_TierTermsMatchRange ==
    (nstage = "indexed" /\ nfield.shift_step # 0) =>
        (ValueInRange(nrange, nv) <=> SomeTierMatch(nq, nterms))

\* a range over several blocks of a tier was simplified to several
\* sub-queries and an indexed value inside it is matched by a coarse tier
C15_Witness ==
    /\ nstage = "indexed"
    /\ nfield.shift_step # 0
    /\ nq.kind = "Or"
    /\ ValueInRange(nrange, nv)
    /\ \E i \in 1 .. Len(nq.subs) :
          /\ nq.subs[i].start[1] # 0
          /\ \E j \in 1 .. Len(nterms) : SubQueryMatches(nq.subs[i], nterms[j])

\* C16: simplify returns NullQuery whenever the exclusive adjustments leave
\* start greater than end, with a shift_step and with shift_step 0 alike.
C16_EmptyRangeIsNull ==
    (nstage # "init" /\ nstage # "idle"
       /\ (nrange.startexcl \/ nrange.endexcl)
       /\ SimplifyStart(nfield, nrange).val > SimplifyEnd(nfield, nrange).val)
      => (nq.err = "none" /\ nq.kind = "NullQuery")

----------------------------------------------------------------------------
(* Properties of Range.normalize and Range.merge *)

\* C17: normalize on any range query (TermRange, NumericRange, DateRange)
\* returns Every(field) when both ends are open, NullQuery when start == end
\* and either end is exclusive, and a Term on that value when start == end
\* and both ends are inclusive.
C17_NormalizeSpecialCases ==
    rqres.op = "normalize" =>
        /\ (~rqa.start.some /\ ~rqa.end.some) => rqres.kind = "Every"
        /\ (rqa.start.some /\ rqa.end.some /\ rqa.start.v = rqa.end.v) =>
              IF rqa.startexcl \/ rqa.endexcl
              THEN rqres.kind = "NullQuery"
              ELSE rqres.kind = "Term" /\ rqres.q.start = rqa.start

\* the place of a value among the values of its class, counted from 0
ValRank(cls, x) ==
    IF cls = "TermRange" THEN Cardinality({t \in RqTexts : TextLess(t, x)}) ELSE x

\* the endpoints of a range as integers: a value is three times its rank,
\* an exclusive start lies just after its value and an exclusive end just
\* before it; an open side lies beyond every value
StartKey(q) ==
    IF ~q.start.some THEN -3
    ELSE 3 * ValRank(q.cls, q.start.v) + (IF q.startexcl THEN 1 ELSE 0)

EndKey(q) ==
    IF ~q.end.some THEN 1999999998
    ELSE 3 * ValRank(q.cls, q.end.v) - (IF q.endexcl THEN 1 ELSE 0)

\* two ranges overlap: each starts no later than the other ends
Overlapping(a, b) == StartKey(a) <= EndKey(b) /\ StartKey(b) <= EndKey(a)

\* a contains b
Contains(a, b) == StartKey(a) <= StartKey(b) /\ EndKey(b) <= EndKey(a)

\* the start and end the merge of a and b must have
MergedKeys(a, b, intersect) ==
    IF Contains(b, a) THEN <<StartKey(b), EndKey(b)>>
    ELSE IF Contains(a, b) THEN <<StartKey(a), EndKey(a)>>
    ELSE IF intersect
    THEN <<Max(StartKey(a), StartKey(b)), Min(EndKey(a), EndKey(b))>>
    ELSE <<Min(StartKey(a), StartKey(b)), Max(EndKey(a), EndKey(b))>>

----------------------------------------------------------------------------
(* Properties of the search contexts *)

\* C19: every context produced for boolean (unscored) searching, by
\* SearchContext.boolean(), ctx.to_boolean() or Searcher.boolean_context(),
\* has weighting None, so its scored property is False, whatever weighting
\* model the searcher was built with.
C19_BooleanContextUnscored ==
    clast \in {"boolean", "to_boolean", "boolean_context"} =>
        (ctx.weighting = NoWeighting /\ ~scored(ctx))

----------------------------------------------------------------------------
(* Properties of write_postings on arbitrary iterators *)

\* C20: write_postings raises the out-of-order error for every posting whose
\* (field, term) pair is lexicographically less than the current (field,
\* term) pair, a smaller field number with a greater term text included, and
\* never starts a new term block for such a posting.
C20_OutOfOrderRaises ==
    [][(/\ wpi >= 1
        /\ wpi' = wpi + 1
        /\ wpi <= Len(wpin)
        /\ ~wpst.first
        /\ KeyLess(wpin[wpi][1], wpin[wpi][2], wpst.fieldnum, wpst.text))
       => (wpst'.err = "OutOfOrder" /\ wpst'.log = wpst.log)]_vars

\* C21: for every term, the frequency of the entry that write_postings adds
\* to the term table is the term's document frequency: one per posting
\* written for the term, so it equals the number of postings of the block.
C21_FreqIsDocFreq ==
    \A i \in 1 .. Len(wpst.log) :
        wpst.log[i].op = "add" => wpst.log[i].freq = wpst.log[i].postcount

\* the number of entries of a log with the given op
CountOps(log, op) == Cardinality({i \in 1 .. Len(log) : log[i].op = op})

\* the last start before entry i of a log (0 when there is none)
LastStart(log, i) ==
    LET ss == {j \in 1 .. (i - 1) : log[j].op = "start"}
    IN  IF ss = {} THEN 0 ELSE CHOOSE j \in ss : \A k \in ss : k <= j

\* C25: in every run of write_postings the calls on the posting writer
\* follow the pattern (start, write+, finish)*: every write happens after a
\* start and before the next finish, start and finish alternate beginning
\* with start, each finish is followed by exactly one termtable.add for the
\* term just finished, and when write_postings returns normally there are as
\* many finish calls as start calls.
C25_WriterCallPattern ==
    LET log == wpst.log IN
    /\ \A i \in 1 .. Len(log) :
          /\ log[i].op = "start" => (i = 1 \/ log[i - 1].op = "add")
          /\ log[i].op = "write" => (i > 1 /\ log[i - 1].op \in {"start", "write"})
          /\ log[i].op = "finish" =>
                /\ i > 1 /\ log[i - 1].op = "write"
                /\ i < Len(log) /\ log[i + 1].op = "add"
          /\ log[i].op = "add" =>
                /\ i > 1 /\ log[i - 1].op = "finish"
                /\ LastStart(log, i) > 0
                /\ log[LastStart(log, i)].fieldnum = log[i].fieldnum
                /\ log[LastStart(log, i)].text = log[i].text
    /\ (wpi = Len(wpin) + 2 /\ wpst.err = "none") =>
          CountOps(log, "finish") = CountOps(log, "start")

\* write_postings returned after two terms, one of them with two postings
C25_Witness ==
    /\ wpi = Len(wpin) + 2
    /\ wpst.err = "none"
    /\ CountOps(wpst.log, "start") = 2
    /\ CountOps(wpst.log, "finish") = 2
    /\ CountOps(wpst.log, "write") = 3

----------------------------------------------------------------------------
(* Properties of the spills of a TempfilePool *)

\* the postings of a run file are in ascending (field, term, doc) order
RunAscending(ps) ==
    \A i \in 1 .. (Len(ps) - 1) :
        \/ KeyLess(ps[i][1], ps[i][2], ps[i + 1][1], ps[i + 1][2])
        \/ (ps[i][1] = ps[i + 1][1] /\ ps[i][2] = ps[i + 1][2] /\ ps[i][3] <= ps[i + 1][3])

\* the step appends one run of the postings in memory: one (path, count)
\* entry, a file of exactly those postings in ascending order
SpillsOneRun ==
    /\ Len(runs') = Len(runs) + 1
    /\ SubSeq(runs', 1, Len(runs)) = runs
    /\ runs'[Len(runs')][2] = Len(postings)
    /\ runs'[Len(runs')][1] \in DOMAIN files'
    /\ LET f == files'[runs'[Len(runs')][1]]
       IN  /\ Len(f) = Len(postings)
           /\ {f[i] : i \in 1 .. Len(f)} = {postings[i] : i \in 1 .. Len(postings)}
           /\ RunAscending(f)

\* C22: add_posting spills a run exactly when the accumulated size is >=
\* limit at the time of the call; a spill with postings in memory appends one
\* (path, count) entry to runs with count equal to the number of postings
\* spilled, writes exactly those postings in ascending (field, term, doc)
\* order and resets postings, size and count; a dump_run with nothing
\* accumulated changes no state.
C22_SpillExactlyAtLimit ==
    [][/\ (phase = "open" /\ nadds' = nadds + 1) =>
            IF size >= Limit
            THEN /\ SpillsOneRun
                 /\ Len(postings') = 1
                 /\ count' = 1
                 /\ size' = PostingSize(postings'[1][2], postings'[1][5])
            ELSE /\ runs' = runs
                 /\ files' = files
                 /\ postings' = Append(postings, postings'[Len(postings')])
                 /\ count' = count + 1
       /\ (phase = "open" /\ phase' = "open" /\ nadds' = nadds) =>
            IF size > 0
            THEN /\ SpillsOneRun
                 /\ postings' = <<>>
                 /\ size' = 0
                 /\ count' = 0
            ELSE UNCHANGED poolVars]_vars

\* add_posting spilled two postings into a run and holds the third
C22_Witness ==
    /\ phase = "open"
    /\ Len(runs) = 1
    /\ runs[1][2] = 2
    /\ Len(postings) = 1
    /\ nadds = 3


\* C26: the runs of a pool name pairwise distinct temporary files, whatever
\* values now() returns
C26_RunNamesDistinct ==
    \A i, j \in 1 .. Len(runs) : i # j => runs[i][1] # runs[j][1]


\* C28: Schema.add is atomic with respect to its checks: when it raises
\* FieldConfigurationError the schema is exactly as it was before the call,
\* also when the failure happens while a generated sub-field is added
C28_FailedAddLeavesSchema ==
    (slast.op = "add" /\ slast.err = "FieldConfigurationError")
        => TheSchema = slast.before

----------------------------------------------------------------------------
(* Properties of the dispatch of doclist_reader *)

\* C29: the first byte of a block written with the full header has the bit
\* MIN_POSTS_FLAG (0x80) clear and the first byte of a minimal block has it
\* set, so doclist_reader returns a minimal reader exactly for the blocks the
\* minimal encoder wrote, for every format and block size.
C29_ReaderFollowsEncoder ==
    /\ (dstage = "encoded" /\ dblk.err = "none") =>
          (HasBit(dblk.bytes[1], MIN_POSTS_FLAG) <=> UseMinimal(dfmt, dposts))
    /\ (dstage = "opened" /\ drdr.err = "none") =>
          ((drdr.val.kind = "minimal") <=> UseMinimal(dfmt, dposts))

\* an ids-only block of 33 postings, one too many for the minimal encoder,
\* opened by the full reader
C29_Witness ==
    /\ dstage = "opened"
    /\ only_docids(dfmt)
    /\ Len(dposts) = 33
    /\ drdr.err = "none"
    /\ drdr.val.kind = "basic"
    /\ ~HasBit(dblk.bytes[1], MIN_POSTS_FLAG)

----------------------------------------------------------------------------
(* The specification of the two merges *)

InitMerge == PoolInit /\ DocIdle /\ RangeIdle /\ MultiIdle /\ VecIdle /\ SchemaIdle /\ NumIdle /\ RqIdle /\ CtxIdle /\ WpIdle /\ MergeInit /\ AnnoIdle

NextMerge ==
    \/ MergeImerge
    \/ MergeDividemerge

SpecMerge == InitMerge /\ [][NextMerge]_vars

\* the postings of all the runs, one run after the other
RECURSIVE AllRunPosts(_)
AllRunPosts(rs) ==
    IF rs = <<>> THEN <<>>
    ELSE Head(rs) \o AllRunPosts(Tail(rs))

\* how often p occurs in s
Occurrences(s, p) == Cardinality({i \in 1 .. Len(s) : s[i] = p})

NonDecreasing(s) == \A i \in 1 .. (Len(s) - 1) : ~PostLess(s[i + 1], s[i])

\* C27: over the same sorted runs imerge and dividemerge/bimerge yield the
\* same sequence: all postings of all runs, each exactly once, in
\* non-decreasing order
C27_MergesAgree ==
    (gim.done /\ gdiv.done) =>
        /\ gim.items = gdiv.items
        /\ Len(gdiv.items) = Len(AllRunPosts(gruns))
        /\ \A p \in MergePosts :
              Occurrences(gdiv.items, p) = Occurrences(AllRunPosts(gruns), p)
        /\ NonDecreasing(gdiv.items)

----------------------------------------------------------------------------
(* MultiPool.finish without cancel, under fair scheduling *)

\* the operating system runs every process that can run, and the coordinator
\* goes on with finish(); when add_posting and finish are called is up to the
\* caller
NextMultiFinish ==
    \/ MAddPosting
    \/ MFinishBegin
    \/ MJoin
    \/ MGet
    \/ \E w \in Workers : WGet(w)
    \/ \E w \in Workers : WSpill(w)
    \/ \E w \in Workers : WLengths(w)
    \/ \E w \in Workers : WDump(w)
    \/ \E w \in Workers : WPut(w)
    \/ \E w \in Workers : WFlush(w)

\* what worker w does next; its position wpc[w] enables one step at most
WorkerStep(w) ==
    \/ WGet(w)
    \/ WSpill(w)
    \/ WLengths(w)
    \/ WDump(w)
    \/ WPut(w)
    \/ WFlush(w)

\* rqueue.get() is enabled exactly when the coordinator is getting and the
\* pipe holds a result
MGetEnabled == mpc = "getting" /\ rqueue # <<>>

\* weak fairness of every worker and of the coordinator's join and get; the
\* one of MGet is written out with its enabling condition
FairScheduling ==
    /\ \A w \in Workers : WF_vars(WorkerStep(w))
    /\ WF_vars(MJoin)
    /\ <>[]MGetEnabled => []<><<MGet>>_vars

SpecMultiFair == InitMulti /\ [][NextMultiFinish]_vars /\ FairScheduling

----------------------------------------------------------------------------
(* Properties of the task queue of a MultiPool *)

\* finish() has been called
InFinish == mpc \in {"joining", "getting", "finished", "finish_failed"}

\* worker w has taken its Stop
PastStop(w) == wpc[w] \notin {"loop", "spill"}

\* where the posting task t is: applied by a worker, in the hand of a worker
\* that is spilling, or still on the queue
AppliedAt(t) ==
    {<<w, i>> \in Workers \X (1 .. MaxTasks + 1) :
        i <= Len(wlog[w]) /\ wlog[w][i] = t}
InHandAt(t) == {w \in Workers : wpc[w] = "spill" /\ PostTask(wcur[w]) = t}
QueuedAt(t) == {i \in 1 .. Len(pqueue) : pqueue[i] = t}

\* C23: in a MultiPool whose workers share one FIFO task queue, every
\* posting task enqueued before finish is dequeued and applied by exactly
\* one worker before that worker dequeues a Stop, each worker dequeues
\* exactly one Stop, and no task is lost or applied twice.
C23_EveryTaskAppliedOnce ==
    InFinish =>
        /\ \A w \in Workers :
              /\ \A i \in 1 .. Len(wlog[w]) :
                    wlog[w][i] = StopTask => i = Len(wlog[w])
              /\ PastStop(w) <=>
                    (wlog[w] # <<>> /\ wlog[w][Len(wlog[w])] = StopTask)
        /\ \A k \in 1 .. Len(mtasks) :
              LET t == PostTask(mtasks[k]) IN
              /\ Cardinality(AppliedAt(t)) + Cardinality(InHandAt(t))
                    + Cardinality(QueuedAt(t)) = 1
              /\ (\E w \in Workers : PastStop(w)) => QueuedAt(t) = {}
              /\ (\A w \in Workers : PastStop(w)) => Cardinality(AppliedAt(t)) = 1

\* finish has joined both workers; three tasks were applied, two by one
\* worker and one by the other, and each worker took its Stop
C23_Witness ==
    /\ mpc = "getting"
    /\ Len(mtasks) = 3
    /\ \A w \in Workers : Len(wlog[w]) >= 2 /\ PastStop(w)

\* C24: under fair scheduling MultiPool.finish terminates: every worker
\* puts its single result and exits, join returns, and the coordinator has
\* received exactly one result per worker when it merges.
C24_FinishTerminates ==
    (mpc = "joining") ~>
        (/\ mpc \in {"finished", "finish_failed"}
         /\ \A w \in Workers : wpc[w] = "exited"
         /\ Len(mruns.lens) = NumProcs)

----------------------------------------------------------------------------
(* The specification of the annotation lists *)

InitAnno == PoolInit /\ DocIdle /\ RangeIdle /\ MultiIdle /\ VecIdle /\ SchemaIdle /\ NumIdle /\ RqIdle /\ CtxIdle /\ WpIdle /\ MergeIdle /\ AnnoInit

NextAnno ==
    \/ AnnoAdd
    \/ AnnoIndex
    \/ AnnoEncode

SpecAnno == InitAnno /\ [][NextAnno]_vars

\* C30: after any sequence of successful AnnotationList.add calls, every
\* ranges list Annotation.index places in a posting satisfies the
\* precondition of encode_ranges (each start >= the previous end and each
\* end >= its start), so encode_ranges never rejects them.
C30_IndexedRangesEncode ==
    /\ \A i \in 1 .. Len(aposts) : WellFormedRanges(aposts[i].ranges)
    /\ acall.op = "encode" => acall.err = "none"

====
